---- MODULE Spec2Model ----
(***************************************************************************)
(* DockMaster: the authentication layer (auth-service, API gateway and     *)
(* the monolithic docker-service), the credential store, the volume        *)
(* deletion rule and the CLI output translators, as state machines.        *)
(*                                                                         *)
(* Time is counted in ticks, TicksPerSecond of them to a second, so that   *)
(* the truncation of a time.Time to Unix seconds is visible.               *)
(***************************************************************************)
EXTENDS Integers, Sequences, FiniteSets, TLC

\* ------------------------------------------------------------------ bounds
TicksPerSecond == 2
MaxTicks == 4
MaxDays == 1
MaxRestarts == 1
MaxSalt == 1
MaxLines == 3
MaxCounter == 1
MaxCalls == 1002
MaxLoadFailCall == 2
MaxThreads == 2

\* -------------------------------------------------------- program constants
TokenLifetimeHours == 24

\* LogEntry keeps the last 1000 entries
LogCap == 1000

TokenLifetime == TokenLifetimeHours * 3600 * TicksPerSecond

VARIABLES
    deploy,      \* "mono": monolithic docker-service; "split": gateway + services
    envSecret,   \* the JWT_SECRET environment variable ("" when unset)
    jwtSecret,   \* var jwtSecret of the process that signs tokens
    restarts,    \* how often the signing process was restarted
    now,         \* the wall clock, in ticks
    issued,      \* the login response the client holds (the latest one)
    req,         \* the last HTTP request handled
    resp,        \* its outcome
    fileUsers,   \* auth-service: the content of data/users.json
    memUsers,    \* docker-service: var users (map[string]User)
    dbUsers,     \* docker-service: the rows of table users
    lastChange,  \* history: per user, the last acknowledged password change
    containers,  \* the container runtime: the containers and their mounts
    volumes,     \* the container runtime: the volumes
    images,      \* the container runtime: the local images (repository:tag)
    cli,         \* the docker commands the last request spawned
    output,      \* list handler: the stdout of its docker command, line by line
    listed,      \* list handler: the records it returns
    hop,         \* gateway: the calls the last request made to services behind it
    proc,        \* the server process: its listener, requests in flight, database
    thr,         \* the requests running concurrently: position and locals of each
    torn,        \* data/users.json is truncated for a write that has not happened yet
    logs,        \* auth-service: the content of data/logs.json, and the calls made
    stat         \* the aggregate cpu line of /proc/stat and the metrics derived

authVars == <<deploy, envSecret, jwtSecret, restarts, now, issued>>
httpVars == <<req, resp>>
credVars == <<fileUsers, memUsers, dbUsers, lastChange>>
runtimeVars == <<containers, volumes, images, cli>>
listVars == <<output, listed>>
procVars == <<hop, proc, thr, torn, logs, stat>>
vars == <<authVars, httpVars, credVars, runtimeVars, listVars, procVars>>

\* ------------------------------------------------------------------ secrets
EnvKey == [kind |-> "env", id |-> 0]
DefaultKey == [kind |-> "default", id |-> 0]
OtherKey == [kind |-> "other", id |-> 0]
NoKey == [kind |-> "nokey", id |-> 0]
RandomKey(n) == [kind |-> "random", id |-> n]

\* a startup that, without JWT_SECRET, comes up with the same bytes each time
InitAuthSecretRepeated(env, gen) == IF env # "" THEN EnvKey ELSE RandomKey(0)

\* initAuth, first half: JWT_SECRET when set, else 32 fresh random bytes
InitAuthSecret(env, gen) == IF env # "" THEN EnvKey ELSE RandomKey(gen)

\* the gateway falls back to a literal
GetJWTSecret(env) == IF env # "" THEN EnvKey ELSE DefaultKey

\* ------------------------------------------------------------------- tokens
HMACAlgs == {"HS256", "HS384", "HS512"}

\* time.Time.Unix(), jwt.NewNumericDate: whole seconds, truncated
Unix(t) == t \div TicksPerSecond

\* a token: header alg, claims, and the signature with what it was made over
SignedString(alg, key, u, r, e) ==
    [alg |-> alg, username |-> u, role |-> r, exp |-> e,
     sigKey |-> key, sigAlg |-> alg, sigUser |-> u, sigRole |-> r, sigExp |-> e]

\* a string that is no JWT at all (empty, or not three segments)
MalformedToken == SignedString("", NoKey, "", "", 0)

GenerateToken(u, r, secret, t) ==
    LET expirationTime == t + TokenLifetime
    IN  [token |-> SignedString("HS256", secret, u, r, Unix(expirationTime)),
         expiresAt |-> Unix(expirationTime)]

\* a validator that verifies the key but not what the signature covers
SignatureKeyOnly(tok, secret) == tok.sigKey = secret

SignatureValid(tok, secret) ==
    /\ tok.sigKey = secret
    /\ tok.sigAlg = tok.alg
    /\ tok.sigUser = tok.username
    /\ tok.sigRole = tok.role
    /\ tok.sigExp = tok.exp

\* a validator that still takes a token at the very instant of exp
NotExpiredInclusive(tok, t) == t <= tok.exp * TicksPerSecond

NotExpired(tok, t) == t < tok.exp * TicksPerSecond

\* jwt.ParseWithClaims with the key function of validateToken
ParseWithClaims(tok, secret, t) ==
    IF tok.alg = "" THEN "malformed"
    ELSE IF tok.alg \notin HMACAlgs THEN "unexpected signing method"
    ELSE IF ~SignatureValid(tok, secret) THEN "signature is invalid"
    ELSE IF ~NotExpired(tok, t) THEN "token is expired"
    ELSE "ok"

ValidateToken(tok, secret, t) == ParseWithClaims(tok, secret, t) = "ok"

\* -------------------------------------------------------------- credentials
Usernames == {"admin", "bob", "ghost"}
Passwords == {"admin123", "pw1", "pw2"}
\* a password of more than 72 bytes, which bcrypt refuses to hash
TooLongPassword == "longer than 72 bytes"
NewPasswords == Passwords \cup {TooLongPassword}
Salts == 0..MaxSalt

\* bcrypt.GenerateFromPassword: a salted hash, never the password itself
GenerateFromPassword(pw, salt) == [of |-> pw, salt |-> salt]

\* a comparison that takes any password
CompareAnyPassword(hash, pw) == TRUE

\* bcrypt.CompareHashAndPassword
CompareHashAndPassword(hash, pw) == hash = GenerateFromPassword(pw, hash.salt)

NoHash == [of |-> "", salt |-> 0]
NoUser == [id |-> 0, username |-> "", passwordHash |-> NoHash, role |-> "",
           createdAt |-> 0, updatedAt |-> 0]

\* FileStorage.GetUser: the first record of users.json with that username
GetUser(users, username) ==
    IF \E i \in 1..Len(users) : users[i].username = username
    THEN users[CHOOSE i \in 1..Len(users) :
                 /\ users[i].username = username
                 /\ \A j \in 1..(i - 1) : users[j].username # username]
    ELSE NoUser

\* FileStorage.CreateUser (nil when done, else the error)
CreateUserError(users, username) ==
    IF \E i \in 1..Len(users) : users[i].username = username
    THEN "user already exists" ELSE "nil"

CreateUser(users, username, hash, role, t) ==
    IF CreateUserError(users, username) # "nil" THEN users
    ELSE Append(users, [id |-> Len(users) + 1, username |-> username,
                        passwordHash |-> hash, role |-> role,
                        createdAt |-> t, updatedAt |-> t])

\* FileStorage.UpdateUserPassword: the first matching record only
UpdateUserPassword(users, username, hash, t) ==
    IF GetUser(users, username) = NoUser THEN users
    ELSE LET i == CHOOSE k \in 1..Len(users) :
                    /\ users[k].username = username
                    /\ \A j \in 1..(k - 1) : users[j].username # username
         IN  [users EXCEPT ![i].passwordHash = hash, ![i].updatedAt = t]

\* auth-service authenticateUser: "nil", or the error it returns
AuthenticateUserFile(users, username, pw) ==
    LET user == GetUser(users, username)
    IN  IF user = NoUser THEN "user not found"
        ELSE IF ~CompareHashAndPassword(user.passwordHash, pw) THEN "invalid password"
        ELSE "nil"

\* docker-service authenticateUser, on the in-memory map
AuthenticateUserMem(m, username, pw) ==
    IF username \notin DOMAIN m THEN "user not found"
    ELSE IF ~CompareHashAndPassword(m[username].passwordHash, pw) THEN "invalid password"
    ELSE "nil"

\* the role authenticate returns with the user
StoredRole(d, username) ==
    IF d = "mono" THEN memUsers[username].role ELSE GetUser(fileUsers, username).role

AuthenticateUser(d, username, pw) ==
    IF d = "mono" THEN AuthenticateUserMem(memUsers, username, pw)
    ELSE AuthenticateUserFile(fileUsers, username, pw)

\* --------------------------------------------------------------------- HTTP
PathVars == {"{id}", "{name}"}

Route(pattern, prefix, method, wrapped, handler) ==
    [pattern |-> pattern, prefix |-> prefix, method |-> method,
     wrapped |-> wrapped, handler |-> handler]

\* docker-service setupRoutes, in registration order
RoutesMono == <<
    Route(<<"health">>, FALSE, "GET", FALSE, "healthCheck"),
    Route(<<"auth", "login">>, FALSE, "POST", FALSE, "loginHandler"),
    Route(<<"auth", "logout">>, FALSE, "POST", TRUE, "logoutHandler"),
    Route(<<"auth", "me">>, FALSE, "GET", TRUE, "meHandler"),
    Route(<<"auth", "change-password">>, FALSE, "POST", TRUE, "changePasswordHandler"),
    Route(<<"containers">>, FALSE, "GET", TRUE, "listContainers"),
    Route(<<"containers", "run">>, FALSE, "POST", TRUE, "runContainer"),
    Route(<<"containers", "{id}", "start">>, FALSE, "POST", TRUE, "startContainer"),
    Route(<<"containers", "{id}", "stop">>, FALSE, "POST", TRUE, "stopContainer"),
    Route(<<"containers", "{id}", "restart">>, FALSE, "POST", TRUE, "restartContainer"),
    Route(<<"containers", "{id}">>, FALSE, "DELETE", TRUE, "deleteContainer"),
    Route(<<"containers", "{id}", "stats">>, FALSE, "GET", TRUE, "getContainerStats"),
    Route(<<"containers", "{id}", "logs">>, FALSE, "GET", TRUE, "getContainerLogs"),
    Route(<<"images">>, FALSE, "GET", TRUE, "listImages"),
    Route(<<"images", "search">>, FALSE, "GET", TRUE, "searchImages"),
    Route(<<"images", "pull">>, FALSE, "POST", TRUE, "pullImage"),
    Route(<<"images", "{id}">>, FALSE, "DELETE", TRUE, "deleteImage"),
    Route(<<"images", "{id}", "inspect">>, FALSE, "GET", TRUE, "inspectImage"),
    Route(<<"volumes">>, FALSE, "GET", TRUE, "listVolumes"),
    Route(<<"volumes", "{name}">>, FALSE, "DELETE", TRUE, "deleteVolume"),
    Route(<<"networks">>, FALSE, "GET", TRUE, "listNetworks"),
    Route(<<"networks", "{id}">>, FALSE, "DELETE", TRUE, "deleteNetwork"),
    Route(<<"system", "info">>, FALSE, "GET", TRUE, "getSystemInfo"),
    Route(<<"system", "metrics">>, FALSE, "GET", TRUE, "getSystemMetrics") >>

\* api-gateway setupRoutes; the handler of a proxied route is the service address
RoutesGateway == <<
    Route(<<"health">>, FALSE, "GET", FALSE, "healthCheck"),
    Route(<<"auth", "login">>, FALSE, "POST", FALSE, "auth-service:8081"),
    Route(<<"auth", "logout">>, FALSE, "POST", TRUE, "auth-service:8081"),
    Route(<<"auth", "change-password">>, FALSE, "POST", TRUE, "auth-service:8081"),
    Route(<<"auth", "me">>, FALSE, "GET", TRUE, "auth-service:8081"),
    Route(<<"containers">>, TRUE, "*", TRUE, "container-service:8082"),
    Route(<<"images">>, TRUE, "*", TRUE, "image-service:8083"),
    Route(<<"volumes">>, TRUE, "*", TRUE, "volume-service:8084"),
    Route(<<"networks">>, TRUE, "*", TRUE, "network-service:8085"),
    Route(<<"system", "info">>, FALSE, "GET", TRUE, "getSystemInfo"),
    Route(<<"logs">>, FALSE, "GET", TRUE, "auth-service:8081") >>

Routes(d) == IF d = "mono" THEN RoutesMono ELSE RoutesGateway

\* strings.HasPrefix(r.URL.Path, "/" + prefix joined by "/"), on whole segments
HasPrefix(path, prefix) ==
    /\ Len(path) >= Len(prefix)
    /\ \A i \in 1..Len(prefix) : path[i] = prefix[i]

\* mux: a route's path template (or path prefix) against the request path
MatchPath(rt, path) ==
    IF rt.prefix THEN HasPrefix(path, rt.pattern)
    ELSE /\ Len(path) = Len(rt.pattern)
         /\ \A i \in 1..Len(path) : rt.pattern[i] \in PathVars \/ rt.pattern[i] = path[i]

MatchRoute(rt, r) == MatchPath(rt, r.path) /\ rt.method \in {"*", r.method}

NoRoute == Route(<< >>, FALSE, "", FALSE, "")

\* mux.Router.Match: the first registered route that matches path and method
FindRoute(routes, r) ==
    IF \E i \in 1..Len(routes) : MatchRoute(routes[i], r)
    THEN routes[CHOOSE i \in 1..Len(routes) :
                  /\ MatchRoute(routes[i], r)
                  /\ \A j \in 1..(i - 1) : ~MatchRoute(routes[j], r)]
    ELSE NoRoute

\* 405 when only the method keeps every route from matching, else 404
NoRouteStatus(routes, r) ==
    IF \E i \in 1..Len(routes) : MatchPath(routes[i], r.path) THEN 405 ELSE 404

\* what a middleware decides: pass to next or answer itself
Verdict(pass, status, body, xuser, xrole, checked) ==
    [pass |-> pass, status |-> status, body |-> body,
     xuser |-> xuser, xrole |-> xrole, checked |-> checked]

\* a middleware that is content with any Bearer header
BearerHeaderOnly(r, secret, t) ==
    IF r.auth = "" THEN Verdict(FALSE, 401, "Authorization header required", "", "", FALSE)
    ELSE IF r.auth # "Bearer" THEN Verdict(FALSE, 401, "Bearer token required", "", "", FALSE)
    ELSE Verdict(TRUE, 0, "", r.token.username, r.token.role, TRUE)

\* the part the three JWT middlewares share: header, prefix, token
BearerCheck(r, secret, t) ==
    IF r.auth = "" THEN Verdict(FALSE, 401, "Authorization header required", "", "", FALSE)
    ELSE IF r.auth # "Bearer" THEN Verdict(FALSE, 401, "Bearer token required", "", "", FALSE)
    ELSE IF ~ValidateToken(r.token, secret, t) THEN Verdict(FALSE, 401, "Invalid token", "", "", TRUE)
    ELSE Verdict(TRUE, 0, "", r.token.username, r.token.role, TRUE)

\* auth-service authMiddleware
AuthMiddlewareAuthService(r, secret, t) == BearerCheck(r, secret, t)

\* docker-service authMiddleware
AuthMiddlewareMono(r, secret, t) ==
    IF r.path = <<"auth", "login">> \/ r.path = <<"health">>
    THEN Verdict(TRUE, 0, "", "", "", FALSE)
    ELSE BearerCheck(r, secret, t)

\* api-gateway authMiddleware
AuthMiddlewareGateway(r, env, t) ==
    IF \/ HasPrefix(r.path, <<"auth", "login">>)
       \/ HasPrefix(r.path, <<"health">>)
       \/ HasPrefix(r.path, <<"system", "info">>)
    THEN Verdict(TRUE, 0, "", "", "", FALSE)
    ELSE BearerCheck(r, GetJWTSecret(env), t)

\* the secret the middleware at the public port verifies with
VerifySecret(d, secret, env) == IF d = "mono" THEN secret ELSE GetJWTSecret(env)

AuthMiddleware(d, r, secret, env, t) ==
    IF d = "mono" THEN AuthMiddlewareMono(r, secret, t)
    ELSE AuthMiddlewareGateway(r, env, t)

\* a request: line, Authorization header, X-User header as the handler sees
\* it, the fields of the JSON body, the force query parameter
NoReq == [path |-> << >>, method |-> "", auth |-> "", token |-> MalformedToken,
          xuser |-> "", username |-> "", password |-> "", newPassword |-> "",
          force |-> FALSE, body |-> "", image |-> << >>, query |-> << >>,
          all |-> ""]

NoResp == [status |-> 0, body |-> "", handler |-> "", proxied |-> "",
           xuser |-> "", xrole |-> "", checked |-> FALSE,
           token |-> MalformedToken, expiresAt |-> 0, username |-> "", role |-> "",
           detail |-> "", local |-> {}, hub |-> {}, logged |-> {}]

\* what a handler did: status, body, the docker commands it ran
Served(status, body, commands) == [status |-> status, body |-> body, commands |-> commands]

\* docker-service handlers on a request without a body; ok: the CLI calls succeed
ServeMono(handler, ok) ==
    LET run(cmd) == Served(IF ok THEN 200 ELSE 500, IF ok THEN "data" ELSE "docker command failed", <<cmd>>)
    IN  CASE handler = "healthCheck" -> Served(200, "healthy", << >>)
          [] handler = "logoutHandler" -> Served(200, "Logged out successfully", << >>)
          [] handler = "meHandler" -> Served(200, "me", << >>)
          [] handler = "changePasswordHandler" -> Served(400, "Invalid request body", << >>)
          [] handler = "listContainers" -> run("ps")
          [] handler = "startContainer" -> run("start")
          [] handler = "getContainerStats" -> run("stats")
          [] handler = "listImages" -> run("images")
          [] handler = "listVolumes" -> run("volume ls")
          [] handler = "deleteVolume" -> run("volume rm")
          [] handler = "deleteContainer" -> run("rm")
          [] handler = "deleteImage" -> run("rmi")
          [] handler = "listNetworks" -> run("network ls")
          [] handler = "deleteNetwork" -> run("network rm")
          [] handler = "getSystemInfo" ->
                IF ok THEN Served(200, "data", <<"system info", "version">>)
                ELSE Served(500, "docker command failed", <<"system info">>)
          [] handler = "getSystemMetrics" ->
                Served(IF ok THEN 200 ELSE 500, IF ok THEN "data" ELSE "Failed to get system metrics", << >>)
          [] OTHER -> Served(IF ok THEN 200 ELSE 500, "", << >>)

\* api-gateway handlers; ok: the docker command succeeds
ServeGateway(handler, ok) ==
    CASE handler = "healthCheck" -> Served(200, "healthy", << >>)
      [] handler = "getSystemInfo" ->
            Served(IF ok THEN 200 ELSE 500, IF ok THEN "data" ELSE "Failed to get system info", <<"system info">>)
      [] OTHER -> Served(500, "", << >>)

\* proxyToService: the downstream answer as it is, 503 when the call fails
ProxyToService(reachable, downstreamStatus) ==
    IF reachable THEN Served(downstreamStatus, "downstream", << >>)
    ELSE Served(503, "Service unavailable", << >>)

IsProxied(d, rt) == d = "split" /\ rt.handler \notin {"healthCheck", "getSystemInfo"}

\* the auth-service handler behind a path the gateway proxies to auth-service:8081
AuthServiceHandler(pattern) ==
    CASE pattern = <<"logs">> -> "getLogsHandler"
      [] pattern = <<"auth", "me">> -> "meHandler"
      [] pattern = <<"auth", "logout">> -> "logoutHandler"
      [] pattern = <<"auth", "change-password">> -> "changePasswordHandler"
      [] OTHER -> "loginHandler"

\* what a handler answered, with the role it reports
Answered(status, body, role, commands) ==
    [status |-> status, body |-> body, role |-> role, commands |-> commands]

\* a log view that asks for no role
GetLogsHandlerOpen(xrole) == Answered(200, "log entries", "", << >>)

\* getLogsHandler: X-Role must be admin; GetLogs of the file storage never fails
GetLogsHandler(xrole) ==
    IF xrole # "admin" THEN Answered(403, "Insufficient permissions", "", << >>)
    ELSE Answered(200, "log entries", "", << >>)

\* meHandler: X-User and X-Role as they came in
MeHandler(xuser, xrole) == Answered(200, xuser, xrole, << >>)

\* the handler a matched route ends in
Target(d, rt) ==
    IF d = "split" /\ rt.handler = "auth-service:8081" THEN AuthServiceHandler(rt.pattern)
    ELSE rt.handler

\* the answer to a request that passed the middleware as xuser with xrole; ok:
\* the docker calls succeed and the downstream service is reachable
Answer(d, rt, xuser, xrole, ok) ==
    LET plain(o) == Answered(o.status, o.body, "", o.commands)
    IN  IF IsProxied(d, rt) /\ ~ok THEN plain(ProxyToService(FALSE, 0))
        ELSE IF Target(d, rt) = "getLogsHandler" THEN GetLogsHandler(xrole)
        ELSE IF Target(d, rt) = "meHandler" THEN MeHandler(xuser, xrole)
        ELSE IF IsProxied(d, rt) THEN plain(ProxyToService(TRUE, 200))
        ELSE IF d = "mono" THEN plain(ServeMono(rt.handler, ok))
        ELSE plain(ServeGateway(rt.handler, ok))

\* the requests of the model: one path per route family, any method
ReqPaths == { <<"health">>, <<"auth", "me">>, <<"auth", "change-password">>,
              <<"containers">>, <<"containers", "c1", "start">>, <<"images">>,
              <<"volumes", "v1">>, <<"networks">>, <<"system", "info">>,
              <<"system", "metrics">>, <<"logs">> }
Methods == {"GET", "POST", "DELETE"}
AuthSchemes == {"", "Basic", "Bearer"}

\* a token with its role claim rewritten and the signature left as it was
Tamper(tok) == [tok EXCEPT !.role = IF tok.role = "admin" THEN "user" ELSE "admin"]

ForgedTokens(t) ==
    LET e == Unix(t + TokenLifetime)
    IN  { SignedString("HS256", OtherKey, "admin", "admin", e),
          SignedString("HS256", DefaultKey, "admin", "admin", e),
          SignedString("RS256", OtherKey, "admin", "admin", e),
          SignedString("none", NoKey, "admin", "admin", e) }

NoIssue == [token |-> MalformedToken, expiresAt |-> 0, issuedAt |-> 0, gen |-> 0]

PresentableTokens ==
    {MalformedToken} \cup ForgedTokens(now)
        \cup (IF issued = NoIssue THEN {} ELSE {issued.token, Tamper(issued.token)})

Requests ==
    { [NoReq EXCEPT !.path = p, !.method = m, !.auth = a] :
        p \in ReqPaths, m \in Methods, a \in AuthSchemes \ {"Bearer"} }
    \cup
    { [NoReq EXCEPT !.path = p, !.method = m, !.auth = "Bearer", !.token = k] :
        p \in ReqPaths, m \in Methods, k \in PresentableTokens }

\* -------------------------------------------------------------- host metrics
\* the tick counters of the aggregate line, in the order of /proc/stat
Counters == <<"user", "nice", "system", "idle", "iowait", "irq", "softirq">>

\* the first line of /proc/stat as strings.Fields splits it: a label and the
\* counters (a line of a single core, and one cut short, among them)
StatLines ==
    { <<label>> \o c : label \in {"cpu", "cpu0"},
                       c \in [1..Len(Counters) -> 0..MaxCounter] }
        \cup { <<"cpu">> \o [i \in 1..(Len(Counters) - 1) |-> MaxCounter] }

\* a float64: a ratio of integers, or what a division by zero gives
Finite(num, den) == [class |-> "finite", num |-> num, den |-> den]
NaN == [class |-> "NaN", num |-> 0, den |-> 1]
Inf == [class |-> "+Inf", num |-> 0, den |-> 1]

\* a / b on float64 values that hold non-negative integers
Quotient(a, b) == IF b # 0 THEN Finite(a, b) ELSE IF a = 0 THEN NaN ELSE Inf

\* x * 100
Percent(x) == IF x.class = "finite" THEN Finite(x.num * 100, x.den) ELSE x

NoMetrics == [error |-> "", usage |-> Finite(0, 1), userTime |-> 0, systemTime |-> 0,
              idleTime |-> 0]
NoStat == [fields |-> << >>, metrics |-> NoMetrics]

\* getCPUMetrics on the fields of the line it read
CPUMetrics(fields) ==
    IF Len(fields) < 8 \/ fields[1] # "cpu"
    THEN [NoMetrics EXCEPT !.error = "invalid CPU stats format"]
    ELSE LET user == fields[2]
             nice == fields[3]
             system == fields[4]
             idle == fields[5]
             iowait == fields[6]
             irq == fields[7]
             softirq == fields[8]
             total == user + nice + system + idle + iowait + irq + softirq
         IN  [error |-> "nil", usage |-> Percent(Quotient(total - idle, total)),
              userTime |-> user, systemTime |-> system, idleTime |-> idle]

\* ------------------------------------------------------------------ startup
AdminUsername == "admin"
AdminPassword == "admin123"

BobRecord == [id |-> 1, username |-> "bob",
              passwordHash |-> GenerateFromPassword("pw1", 0), role |-> "user",
              createdAt |-> 0, updatedAt |-> 0]

\* what data/users.json (or table users) holds when the process starts
PersistedStores == { << >>, <<BobRecord>> }

\* auth-service initAuth, second half
InitAuthFile(users) ==
    IF GetUser(users, AdminUsername) = NoUser
    THEN CreateUser(users, AdminUsername, GenerateFromPassword(AdminPassword, 0), "admin", 0)
    ELSE users

MemUser(u) == [username |-> u.username, passwordHash |-> u.passwordHash,
               role |-> u.role, createdAt |-> u.createdAt]

\* the rows of table users for a persisted user list
DBRows(rows) ==
    [name \in {rows[i].username : i \in 1..Len(rows)} |-> MemUser(GetUser(rows, name))]

\* loadUsersFromDB: every row into the map
LoadUsersFromDB(m, db) == [name \in DOMAIN m \cup DOMAIN db |->
                              IF name \in DOMAIN db THEN db[name] ELSE m[name]]

\* updateUserPassword: UPDATE users SET password_hash WHERE username
UpdateUserPasswordDB(db, username, hash) ==
    [name \in DOMAIN db |-> IF name = username
                             THEN [db[name] EXCEPT !.passwordHash = hash]
                             ELSE db[name]]

\* docker-service initAuth, second half: only an empty map gets the admin
InitAuthMem(m) ==
    IF DOMAIN m = {}
    THEN (AdminUsername :> [username |-> AdminUsername,
                            passwordHash |-> GenerateFromPassword(AdminPassword, 0),
                            role |-> "admin", createdAt |-> 0])
    ELSE m

NoChange == [old |-> "", new |-> ""]

AuthInit ==
    /\ deploy \in {"mono", "split"}
    /\ envSecret \in {"", "cfg"}
    /\ jwtSecret = InitAuthSecret(envSecret, 0)
    /\ restarts = 0
    /\ now = 0
    /\ issued = NoIssue

\* no call made behind the gateway
NoHop == << >>

\* main after ListenAndServe was started: listening, database open, idle
Serving == [phase |-> "serving", inflight |-> {}, db |-> "open",
            expired |-> FALSE, failed |-> {}]

\* no request running beside the one in req, nothing logged
NoThreads == << >>
NoLogs == [file |-> << >>, calls |-> 0]

HttpInit ==
    /\ req = NoReq /\ resp = NoResp /\ hop = NoHop /\ proc = Serving
    /\ thr = NoThreads /\ torn = FALSE /\ logs = NoLogs /\ stat = NoStat

CredInit ==
    /\ \E persisted \in PersistedStores :
          /\ fileUsers = InitAuthFile(persisted)
          /\ memUsers = InitAuthMem(LoadUsersFromDB(<< >>, DBRows(persisted)))
    /\ dbUsers = memUsers
    /\ lastChange = [u \in Usernames |-> NoChange]

\* no container, no volume, nothing spawned
RuntimeIdle == containers = << >> /\ volumes = {} /\ images = {} /\ cli = << >>

\* ------------------------------------------------------ the container runtime
VolumeNames == {"v1", "v2"}
ContainerIds == {"c1", "c2"}

\* a container: the named volume it mounts ("" for none), running or stopped
ContainerStates == [volume : VolumeNames \cup {""}, running : BOOLEAN]

\* docker ps -a --filter volume=<name>: running and stopped containers alike
ReferencedBy(name) == {c \in DOMAIN containers : containers[c].volume = name}

\* isVolumeInUse: the filter's output, trimmed, is not empty
IsVolumeInUse(name) == ReferencedBy(name) # {}

\* dockerRemoveVolume, by what the daemon does with `volume rm [-f] <name>`:
\* a volume in use is never removed, -f only forgives a missing volume
DockerRemoveVolumeError(name, force, ok) ==
    \/ ~ok
    \/ ReferencedBy(name) # {}
    \/ name \notin volumes /\ ~force

\* dockerRemove, by what the daemon does with `rm [-f] <id>`
DockerRemoveError(id, force, ok) ==
    \/ ~ok
    \/ id \notin DOMAIN containers
    \/ id \in DOMAIN containers /\ containers[id].running /\ ~force

\* image names, as strings of characters
Repositories == { <<"N", "g">>, <<"r", "e">> }
NoneTag == <<"<none>">>
Tags == { <<"l">>, <<"7">>, NoneTag }
Latest == <<"l">>

ImageRef(repository, tag) == [repository |-> repository, tag |-> tag]
ImageRefs == { ImageRef(r, t) : r \in Repositories, t \in Tags }

\* the image argument of a request: empty, a repository, or repository:tag
ImageArgs == { << >> } \cup Repositories
                \cup { r \o <<":">> \o t : r \in Repositories, t \in Tags \ {NoneTag} }

\* the image `docker pull <arg>` fetches: the tag after the colon, else latest
PulledImage(arg) ==
    LET colons == { i \in 1..Len(arg) : arg[i] = ":" }
    IN  IF colons = {} THEN ImageRef(arg, Latest)
        ELSE LET c == CHOOSE i \in colons : \A j \in colons : j <= i
             IN  ImageRef(SubSeq(arg, 1, c - 1), SubSeq(arg, c + 1, Len(arg)))

\* docker refuses an empty reference; anything else is up to the daemon
DockerPullError(arg, ok) == arg = << >> \/ ~ok
DockerRunError(arg, ok) == arg = << >> \/ ~ok \/ DOMAIN containers = ContainerIds

\* strings.ToLower, character by character
Lower(c) == CASE c = "N" -> "n" [] c = "G" -> "g" [] c = "R" -> "r" [] OTHER -> c
ToLower(str) == [i \in 1..Len(str) |-> Lower(str[i])]

\* strings.Contains
Contains(str, substr) ==
    \E i \in 0..(Len(str) - Len(substr)) : SubSeq(str, i + 1, i + Len(substr)) = substr

\* the RepoTags entry getRealImages of the docker-service builds for an image
RepoTagMono(img) ==
    IF img.tag = NoneTag THEN <<"<none>", ":", "<none>">>
    ELSE img.repository \o <<":">> \o img.tag

\* getRealImages, as far as searchLocalImages looks at it: per image the
\* RepoTags it can read; the image-service's records have no such key
RepoTagsOf(d, img) == IF d = "mono" THEN {RepoTagMono(img)} ELSE {}

\* searchLocalImages: the listed images one of whose RepoTags contains the
\* query, both in lower case
SearchLocalImages(d, query, listing) ==
    { img \in listing :
        \E tag \in RepoTagsOf(d, img) : Contains(ToLower(tag), ToLower(query)) }

\* the registry and its text search
HubCatalog == { <<"N", "g">>, <<"n", "g", "x">>, <<"r", "e">> }
SearchDockerHub(query) == { n \in HubCatalog : Contains(ToLower(n), ToLower(query)) }

Queries == { << >>, <<"n">>, <<"N", "G">>, <<"g", ":">>, <<"7">>, <<"x">> }

\* a search that gives up when one of its sources fails
SearchResponseAllOrNothing(local, localErr, hub, hubErr) ==
    IF localErr \/ hubErr THEN [status |-> 500, local |-> {}, hub |-> {}]
    ELSE [status |-> 200, local |-> local, hub |-> hub]

\* searchImages, after both searches: errors are logged, what each search
\* returned (nothing on an error) goes under its own key
SearchResponse(local, localErr, hub, hubErr) ==
    [status |-> 200, local |-> IF localErr THEN {} ELSE local,
                     hub |-> IF hubErr THEN {} ELSE hub]

\* the runtime with some images pulled
ImagesInit ==
    /\ containers = << >>
    /\ volumes = {}
    /\ images \in SUBSET ImageRefs
    /\ cli = << >>

RuntimeInit ==
    /\ volumes \in SUBSET VolumeNames
    /\ \E ids \in SUBSET ContainerIds : containers \in [ids -> ContainerStates]
    /\ \A c \in DOMAIN containers : containers[c].volume \in volumes \cup {""}
    /\ images = {}
    /\ cli = << >>
ListIdle == output = << >> /\ listed = << >>

\* ---------------------------------------------------------- CLI output lines
\* a line of `docker ... --format json` output: what it holds, the name in
\* it when it is an object, and whether it is longer than the 64 KiB a
\* bufio.Scanner takes as one token
Line(kind, name, long) == [kind |-> kind, name |-> name, long |-> long]

EmptyLine == Line("empty", "", FALSE)

LineValues ==
    { EmptyLine,
      Line("blank", "", FALSE),      \* white space only
      Line("garbage", "", FALSE),    \* no JSON
      Line("scalar", "", FALSE),     \* JSON, but a number or a string
      Line("null", "", FALSE),       \* the JSON null
      Line("object", "a", FALSE),
      Line("object", "b", FALSE),
      Line("object", "a", TRUE) }

Outputs == UNION {[1..n -> LineValues] : n \in 0..MaxLines}

\* strings.TrimSpace on a line
TrimSpace(line) == IF line.kind = "blank" THEN EmptyLine ELSE line

\* json.Unmarshal into the record type: objects and null are taken
UnmarshalError(line) == line.kind \notin {"object", "null"}

\* the record made from a decoded line (null leaves every field empty)
Converted(line) == [name |-> IF line.kind = "null" THEN "" ELSE line.name]

\* scanner.Scan() in a loop: Scan returns false at the first line that is too
\* long, and scanner.Err() is not looked at
ScanLines(lines) ==
    IF \E i \in 1..Len(lines) : lines[i].long
    THEN SubSeq(lines, 1, (CHOOSE i \in 1..Len(lines) :
                              /\ lines[i].long
                              /\ \A j \in 1..(i - 1) : ~lines[j].long) - 1)
    ELSE lines

KeptByScanner(line) == line # EmptyLine /\ ~UnmarshalError(line)
KeptBySplit(line) == TrimSpace(line) # EmptyLine /\ ~UnmarshalError(TrimSpace(line))

Records(kept) == [i \in 1..Len(kept) |-> Converted(kept[i])]

\* docker-service getRealContainers, getRealImages, getRealVolumes, getRealNetworks
GetRealScanner(lines) == Records(SelectSeq(ScanLines(lines), KeptByScanner))

\* the services' getRealContainers, getRealImages, getRealVolumes, getRealNetworks
GetRealSplit(lines) == Records(SelectSeq(lines, KeptBySplit))

GetReal(d, lines) == IF d = "mono" THEN GetRealScanner(lines) ELSE GetRealSplit(lines)

\* the order in which the daemon prints what it holds
ContainerOrder == <<"c1", "c2">>
ImageOrder == << ImageRef(<<"N", "g">>, <<"l">>), ImageRef(<<"N", "g">>, <<"7">>),
                 ImageRef(<<"N", "g">>, NoneTag), ImageRef(<<"r", "e">>, <<"l">>),
                 ImageRef(<<"r", "e">>, <<"7">>), ImageRef(<<"r", "e">>, NoneTag) >>

\* listContainers: whether -a is passed; the docker-service wants all=true,
\* the container-service anything but all=false
AllFlag(d, all) == IF d = "mono" THEN all = "true" ELSE all # "false"

\* `docker ps [-a] --format json`: a line per container, the stopped ones only
\* with -a; long: the containers whose line is over 64 KiB
DockerPs(allFlag, long) ==
    LET shown(id) == id \in DOMAIN containers /\ (allFlag \/ containers[id].running)
        ids == SelectSeq(ContainerOrder, shown)
    IN  [i \in 1..Len(ids) |->
            [kind |-> "object", name |-> ids[i], long |-> ids[i] \in long,
             state |-> IF containers[ids[i]].running THEN "running" ELSE "exited"]]

\* `docker images --format json`: a line per image
DockerImages(long) ==
    LET held(img) == img \in images
        imgs == SelectSeq(ImageOrder, held)
    IN  [i \in 1..Len(imgs) |->
            [kind |-> "object", name |-> "", long |-> imgs[i] \in long, image |-> imgs[i]]]

\* the lines a list function turns into records
KeptLines(d, lines) ==
    IF d = "mono" THEN SelectSeq(ScanLines(lines), KeptByScanner)
    ELSE SelectSeq(lines, KeptBySplit)

\* convertToFrontendFormat of a container line
ContainerRecord(line) == [name |-> line.name, state |-> line.state]

\* the record of an image line: RepoTags in the docker-service, repository
\* and tag in the image-service
ImageRecord(d, line) ==
    [repoTag |-> IF d = "mono" THEN RepoTagMono(line.image)
                 ELSE line.image.repository \o <<":">> \o line.image.tag]

GetRealContainers(d, lines) ==
    LET kept == KeptLines(d, lines) IN [i \in 1..Len(kept) |-> ContainerRecord(kept[i])]

GetRealImages(d, lines) ==
    LET kept == KeptLines(d, lines) IN [i \in 1..Len(kept) |-> ImageRecord(d, kept[i])]

ListHandler(resource) ==
    CASE resource = "containers" -> "listContainers"
      [] resource = "images" -> "listImages"
      [] resource = "volumes" -> "listVolumes"
      [] resource = "networks" -> "listNetworks"

ListCommand(resource) ==
    CASE resource = "containers" -> "ps"
      [] resource = "images" -> "images"
      [] resource = "volumes" -> "volume ls"
      [] resource = "networks" -> "network ls"

\* ------------------------------------------------------------------ actions
\* POST /auth/login (docker-service loginHandler; over the gateway, proxied
\* without middleware to the auth-service loginHandler); a body that does
\* not decode yields no fields
Login(username, pw, bodyOK) ==
    /\ resp = NoResp
    /\ ~bodyOK => username = "" /\ pw = ""
    /\ req' = [NoReq EXCEPT !.path = <<"auth", "login">>, !.method = "POST",
                            !.username = username, !.password = pw]
    /\ cli' = << >>
    /\ LET rt == FindRoute(Routes(deploy), req')
           err == AuthenticateUser(deploy, username, pw)
           tok == GenerateToken(username, StoredRole(deploy, username), jwtSecret, now)
           base == [NoResp EXCEPT !.handler = "loginHandler",
                                  !.proxied = IF IsProxied(deploy, rt) THEN rt.handler ELSE ""]
       IN  IF ~bodyOK
           THEN /\ resp' = [base EXCEPT !.status = 400, !.body = "Invalid request body"]
                /\ issued' = issued
           ELSE IF err # "nil"
           THEN /\ resp' = [base EXCEPT !.status = 401, !.body = "Invalid credentials"]
                /\ issued' = issued
           ELSE /\ resp' = [base EXCEPT !.status = 200, !.token = tok.token,
                                        !.expiresAt = tok.expiresAt,
                                        !.username = username,
                                        !.role = StoredRole(deploy, username)]
                /\ issued' = [token |-> tok.token, expiresAt |-> tok.expiresAt,
                               issuedAt |-> now, gen |-> restarts]
    /\ UNCHANGED <<deploy, envSecret, jwtSecret, restarts, now>>
    /\ UNCHANGED <<images, credVars, containers, volumes, listVars>>
    /\ UNCHANGED procVars

\* any other request without a body, at the public port; ok: the handler's docker
\* calls succeed (over the gateway: the downstream service answers 200)
Request(r, ok) ==
    /\ resp = NoResp
    /\ req' = r
    /\ LET rt == FindRoute(Routes(deploy), r)
           v == IF rt.wrapped THEN AuthMiddleware(deploy, r, jwtSecret, envSecret, now)
                ELSE Verdict(TRUE, 0, "", "", "", FALSE)
           out == IF IsProxied(deploy, rt) THEN ProxyToService(ok, 200)
                  ELSE IF deploy = "mono" THEN ServeMono(rt.handler, ok)
                  ELSE ServeGateway(rt.handler, ok)
       IN  IF rt = NoRoute
           THEN /\ resp' = [NoResp EXCEPT !.status = NoRouteStatus(Routes(deploy), r)]
                /\ cli' = << >>
           ELSE IF ~v.pass
           THEN /\ resp' = [NoResp EXCEPT !.status = v.status, !.body = v.body,
                                          !.checked = v.checked]
                /\ cli' = << >>
           ELSE /\ resp' = [NoResp EXCEPT !.status = out.status, !.body = out.body,
                                          !.handler = rt.handler,
                                          !.proxied = IF IsProxied(deploy, rt) THEN rt.handler ELSE "",
                                          !.xuser = v.xuser, !.xrole = v.xrole,
                                          !.checked = v.checked]
                /\ cli' = out.commands
    /\ UNCHANGED <<images, authVars, credVars, containers, volumes, listVars>>
    /\ UNCHANGED procVars

\* a request without a body, followed to the handler that answers it
RequestAs(r, ok) ==
    /\ resp = NoResp
    /\ req' = r
    /\ LET rt == FindRoute(Routes(deploy), r)
           v == IF rt.wrapped THEN AuthMiddleware(deploy, r, jwtSecret, envSecret, now)
                ELSE Verdict(TRUE, 0, "", "", "", FALSE)
           out == Answer(deploy, rt, v.xuser, v.xrole, ok)
       IN  IF rt = NoRoute
           THEN /\ resp' = [NoResp EXCEPT !.status = NoRouteStatus(Routes(deploy), r)]
                /\ cli' = << >>
           ELSE IF ~v.pass
           THEN /\ resp' = [NoResp EXCEPT !.status = v.status, !.body = v.body,
                                          !.checked = v.checked]
                /\ cli' = << >>
           ELSE /\ resp' = [NoResp EXCEPT !.status = out.status, !.body = out.body,
                                          !.role = out.role,
                                          !.handler = Target(deploy, rt),
                                          !.proxied = IF IsProxied(deploy, rt) THEN rt.handler ELSE "",
                                          !.xuser = v.xuser, !.xrole = v.xrole,
                                          !.checked = v.checked]
                /\ cli' = out.commands
    /\ UNCHANGED <<images, authVars, credVars, containers, volumes, listVars>>
    /\ UNCHANGED procVars

\* POST /auth/change-password as the handler sees it behind the middleware:
\* X-User is username; saved: the write to users.json (the UPDATE on table
\* users) succeeds
ChangePassword(username, current, new, salt, bodyOK, saved) ==
    /\ resp = NoResp
    /\ ~bodyOK => current = "" /\ new = ""
    /\ req' = [NoReq EXCEPT !.path = <<"auth", "change-password">>, !.method = "POST",
                            !.xuser = username, !.password = current,
                            !.newPassword = new]
    /\ cli' = << >>
    /\ LET base == [NoResp EXCEPT !.handler = "changePasswordHandler", !.xuser = username]
           answer(status, body) == [base EXCEPT !.status = status, !.body = body]
           hash == GenerateFromPassword(new, salt)
           known == IF deploy = "mono" THEN username \in DOMAIN memUsers
                    ELSE GetUser(fileUsers, username) # NoUser
           stored == IF deploy = "mono" THEN memUsers[username].passwordHash
                     ELSE GetUser(fileUsers, username).passwordHash
       IN  IF ~bodyOK
           THEN /\ resp' = answer(400, "Invalid request body")
                /\ UNCHANGED credVars
           ELSE IF ~known
           THEN /\ resp' = answer(404, "User not found")
                /\ UNCHANGED credVars
           ELSE IF ~CompareHashAndPassword(stored, current)
           THEN /\ resp' = IF deploy = "mono"
                           THEN answer(401, "Invalid current password")
                           ELSE answer(400, "Current password is incorrect")
                /\ UNCHANGED credVars
           ELSE IF new = TooLongPassword
           THEN /\ resp' = answer(500, "Failed to hash password")
                /\ UNCHANGED credVars
           ELSE IF deploy = "mono"
           THEN /\ memUsers' = [memUsers EXCEPT ![username].passwordHash = hash]
                /\ dbUsers' = IF saved THEN UpdateUserPasswordDB(dbUsers, username, hash)
                              ELSE dbUsers
                /\ resp' = IF saved THEN answer(200, "Password changed successfully")
                           ELSE answer(500, "Failed to update password in database")
                /\ lastChange' = IF saved
                                 THEN [lastChange EXCEPT ![username] = [old |-> current, new |-> new]]
                                 ELSE lastChange
                /\ UNCHANGED fileUsers
           ELSE /\ fileUsers' = IF saved THEN UpdateUserPassword(fileUsers, username, hash, now)
                                ELSE fileUsers
                /\ resp' = IF saved THEN answer(200, "Password changed successfully")
                           ELSE answer(500, "Failed to update password")
                /\ lastChange' = IF saved
                                 THEN [lastChange EXCEPT ![username] = [old |-> current, new |-> new]]
                                 ELSE lastChange
                /\ UNCHANGED <<memUsers, dbUsers>>
    /\ UNCHANGED <<images, authVars, containers, volumes, listVars>>
    /\ UNCHANGED procVars

\* POST /auth/logout as the handler sees it behind the middleware: a message,
\* and nothing kept of the token
Logout(username) ==
    /\ resp = NoResp
    /\ req' = [NoReq EXCEPT !.path = <<"auth", "logout">>, !.method = "POST",
                            !.xuser = username]
    /\ resp' = [NoResp EXCEPT !.handler = "logoutHandler", !.xuser = username,
                              !.status = 200, !.body = "Logged out successfully"]
    /\ cli' = << >>
    /\ UNCHANGED <<images, authVars, credVars, containers, volumes, listVars>>
    /\ UNCHANGED procVars

\* what the docker CLI writes to stderr when it fails
Stderr == "Error response from daemon: No such container"

\* err.Error() of a failed command: executeDockerCommand wraps the error of
\* cmd.Output(), the container-service returns the error of cmd.Run()
ErrorText(d) ==
    IF d = "mono" THEN "docker command failed: exit status 1" ELSE "exit status 1"

LifecycleOps == {"start", "stop", "restart"}

\* dockerStart, dockerStop, dockerRestart, by what the daemon does
DockerLifecycleError(id, ok) == ~ok \/ id \notin DOMAIN containers

\* POST /containers/{id}/start, /stop, /restart behind the middleware
Lifecycle(op, id, ok) ==
    /\ resp = NoResp
    /\ req' = [NoReq EXCEPT !.path = <<"containers", id, op>>, !.method = "POST"]
    /\ cli' = <<op>>
    /\ LET base == [NoResp EXCEPT !.handler =
                       CASE op = "start" -> "startContainer"
                         [] op = "stop" -> "stopContainer"
                         [] OTHER -> "restartContainer"]
       IN  IF DockerLifecycleError(id, ok)
           THEN /\ resp' = [base EXCEPT !.status = 500,
                                        !.body = CASE op = "start" -> "Failed to start container: "
                                                   [] op = "stop" -> "Failed to stop container: "
                                                   [] OTHER -> "Failed to restart container: ",
                                        !.detail = ErrorText(deploy)]
                /\ containers' = containers
           ELSE /\ resp' = [base EXCEPT !.status = 200,
                                        !.body = CASE op = "start" -> "Container started successfully"
                                                   [] op = "stop" -> "Container stopped successfully"
                                                   [] OTHER -> "Container restarted successfully"]
                /\ containers' = [containers EXCEPT ![id].running = (op # "stop")]
    /\ UNCHANGED <<authVars, credVars, volumes, images, listVars, procVars>>

\* POST /containers/run (docker-service runContainer) and POST /containers
\* (container-service createContainer) behind the middleware; body: "malformed"
\* or "json" (it decodes; image may be empty); ok: the daemon plays along
RunContainer(body, image, ok) ==
    /\ resp = NoResp
    /\ body = "malformed" => image = << >>
    /\ req' = [NoReq EXCEPT !.path = IF deploy = "mono" THEN <<"containers", "run">>
                                     ELSE <<"containers">>,
                            !.method = "POST", !.body = body, !.image = image]
    /\ LET handler == IF deploy = "mono" THEN "runContainer" ELSE "createContainer"
           failed == IF deploy = "mono" THEN "Failed to run container: "
                     ELSE "Failed to create container: "
           base == [NoResp EXCEPT !.handler = handler]
       IN  IF body = "malformed"
           THEN /\ resp' = [base EXCEPT !.status = 400, !.body = "Invalid request body"]
                /\ cli' = << >>
                /\ containers' = containers
           ELSE IF DockerRunError(image, ok)
           THEN /\ resp' = [base EXCEPT !.status = 500, !.body = failed,
                                        !.detail = IF deploy = "mono"
                                                   THEN "docker command failed: exit status 125"
                                                   ELSE "exit status 125"]
                /\ cli' = <<"run">>
                /\ containers' = containers
           ELSE /\ resp' = [base EXCEPT !.status = 200]
                /\ cli' = <<"run">>
                /\ \E id \in ContainerIds \ DOMAIN containers :
                      containers' = [c \in DOMAIN containers \cup {id} |->
                                        IF c = id THEN [volume |-> "", running |-> TRUE]
                                        ELSE containers[c]]
    /\ UNCHANGED <<authVars, credVars, volumes, images, listVars, procVars>>

\* POST /images/pull (pullImage of the docker-service and of the image-service)
PullImage(body, image, ok) ==
    /\ resp = NoResp
    /\ body = "malformed" => image = << >>
    /\ req' = [NoReq EXCEPT !.path = <<"images", "pull">>, !.method = "POST",
                            !.body = body, !.image = image]
    /\ LET base == [NoResp EXCEPT !.handler = "pullImage"]
       IN  IF body = "malformed"
           THEN /\ resp' = [base EXCEPT !.status = 400, !.body = "Invalid request body"]
                /\ cli' = << >>
                /\ images' = images
           ELSE IF DockerPullError(image, ok)
           THEN /\ resp' = [base EXCEPT !.status = 500, !.body = "Failed to pull image: ",
                                        !.detail = IF deploy = "mono"
                                                   THEN "docker command failed: exit status 1"
                                                   ELSE "stderr"]
                /\ cli' = <<"pull">>
                /\ images' = images
           ELSE /\ resp' = [base EXCEPT !.status = 200, !.body = "Image pulled successfully"]
                /\ cli' = <<"pull">>
                /\ images' = images \cup {PulledImage(image)}
    /\ UNCHANGED <<authVars, credVars, containers, volumes, listVars, procVars>>

\* GET /images/search?q= behind the middleware; localOK: `docker images`
\* succeeds; hubOK: the registry search succeeds
SearchImages(query, localOK, hubOK) ==
    /\ resp = NoResp
    /\ req' = [NoReq EXCEPT !.path = <<"images", "search">>, !.method = "GET",
                            !.query = query]
    /\ LET base == [NoResp EXCEPT !.handler = "searchImages"]
           out == SearchResponse(SearchLocalImages(deploy, query, images), ~localOK,
                                 SearchDockerHub(query), ~hubOK)
       IN  IF query = << >>
           THEN /\ resp' = [base EXCEPT !.status = 400,
                                        !.body = "Query parameter 'q' is required"]
                /\ cli' = << >>
           ELSE /\ resp' = [base EXCEPT !.status = out.status,
                                        !.local = out.local, !.hub = out.hub,
                                        !.logged =
                                            (IF localOK THEN {} ELSE {"Failed to search local images"})
                                            \cup (IF hubOK THEN {} ELSE {"Failed to search Docker Hub"})]
                /\ cli' = IF deploy = "mono" THEN <<"images", "search">> ELSE <<"images">>
    /\ UNCHANGED <<authVars, credVars, containers, volumes, images, listVars, procVars>>

\* DELETE /volumes/{name}?force= as the handler sees it behind the middleware
\* (volume service; docker-service); checked: the `docker ps` of the in-use
\* check succeeds; removed: the daemon is there for `docker volume rm`
DeleteVolume(name, force, checked, removed) ==
    /\ resp = NoResp
    /\ req' = [NoReq EXCEPT !.path = <<"volumes", name>>, !.method = "DELETE",
                            !.force = force]
    /\ LET base == [NoResp EXCEPT !.handler = "deleteVolume"]
           answer(status, body) == [base EXCEPT !.status = status, !.body = body]
           ps == IF deploy = "split" /\ ~force THEN <<"ps -a --filter volume">> ELSE << >>
           rm == IF force THEN <<"volume rm -f">> ELSE <<"volume rm">>
       IN  IF deploy = "split" /\ ~force /\ ~checked
           THEN /\ resp' = answer(500, "Failed to check volume usage")
                /\ cli' = ps
                /\ volumes' = volumes
           ELSE IF deploy = "split" /\ ~force /\ IsVolumeInUse(name)
           THEN /\ resp' = answer(409, "Volume is currently in use")
                /\ cli' = ps
                /\ volumes' = volumes
           ELSE IF DockerRemoveVolumeError(name, force, removed)
           THEN /\ resp' = answer(500, "Failed to delete volume")
                /\ cli' = ps \o rm
                /\ volumes' = volumes
           ELSE /\ resp' = answer(200, "Volume deleted successfully")
                /\ cli' = ps \o rm
                /\ volumes' = volumes \ {name}
    /\ UNCHANGED <<images, authVars, credVars, containers, listVars>>
    /\ UNCHANGED procVars

\* DELETE /containers/{id}?force= as the handler sees it behind the middleware
DeleteContainer(id, force, ok) ==
    /\ resp = NoResp
    /\ req' = [NoReq EXCEPT !.path = <<"containers", id>>, !.method = "DELETE",
                            !.force = force]
    /\ cli' = IF force THEN <<"rm -f">> ELSE <<"rm">>
    /\ LET base == [NoResp EXCEPT !.handler = "deleteContainer"]
       IN  IF DockerRemoveError(id, force, ok)
           THEN /\ resp' = [base EXCEPT !.status = 500, !.body = "Failed to delete container"]
                /\ containers' = containers
           ELSE /\ resp' = [base EXCEPT !.status = 200, !.body = "Container deleted successfully"]
                /\ containers' = [c \in DOMAIN containers \ {id} |-> containers[c]]
    /\ UNCHANGED <<images, authVars, credVars, volumes, listVars>>
    /\ UNCHANGED procVars

\* GET /containers, /images, /volumes, /networks as the handler sees it
\* behind the middleware; lines: what the docker command prints; ok: it exits 0
List(resource, lines, ok) ==
    /\ resp = NoResp
    /\ req' = [NoReq EXCEPT !.path = <<resource>>, !.method = "GET"]
    /\ cli' = <<ListCommand(resource)>>
    /\ output' = IF ok THEN lines ELSE << >>
    /\ listed' = IF ok THEN GetReal(deploy, lines) ELSE << >>
    /\ resp' = [NoResp EXCEPT !.handler = ListHandler(resource),
                              !.status = IF ok THEN 200 ELSE 500,
                              !.body = IF ok THEN "data" ELSE "docker command failed"]
    /\ UNCHANGED <<images, authVars, credVars, containers, volumes>>
    /\ UNCHANGED procVars

\* GET /containers?all= behind the middleware, against the runtime as it is
ListContainers(all, long, ok) ==
    /\ resp = NoResp
    /\ req' = [NoReq EXCEPT !.path = <<"containers">>, !.method = "GET", !.all = all]
    /\ cli' = <<IF AllFlag(deploy, all) THEN "ps -a" ELSE "ps">>
    /\ output' = IF ok THEN DockerPs(AllFlag(deploy, all), long) ELSE << >>
    /\ listed' = IF ok THEN GetRealContainers(deploy, DockerPs(AllFlag(deploy, all), long))
                 ELSE << >>
    /\ resp' = [NoResp EXCEPT !.handler = "listContainers",
                              !.status = IF ok THEN 200 ELSE 500,
                              !.body = IF ok THEN "data" ELSE "Failed to get containers: ",
                              !.detail = IF ok THEN "" ELSE ErrorText(deploy)]
    /\ UNCHANGED <<authVars, credVars, containers, volumes, images, procVars>>

\* GET /images behind the middleware, against the runtime as it is
ListImages(long, ok) ==
    /\ resp = NoResp
    /\ req' = [NoReq EXCEPT !.path = <<"images">>, !.method = "GET"]
    /\ cli' = <<"images">>
    /\ output' = IF ok THEN DockerImages(long) ELSE << >>
    /\ listed' = IF ok THEN GetRealImages(deploy, DockerImages(long)) ELSE << >>
    /\ resp' = [NoResp EXCEPT !.handler = "listImages",
                              !.status = IF ok THEN 200 ELSE 500,
                              !.body = IF ok THEN "data" ELSE "Failed to get images: ",
                              !.detail = IF ok THEN "" ELSE ErrorText(deploy)]
    /\ UNCHANGED <<authVars, credVars, containers, volumes, images, procVars>>

\* ------------------------------------------------------------- the proxy
\* r.URL.Path as the gateway's server decoded it from the request line (a
\* %3F on the wire is a ? here, a %23 a #, a %25 a %), character by character
ProxyPaths == { <<"/", "v">>, <<"/", "v", "/", "a">>, <<"/", "v", "/", "a", "?", "b">>,
                <<"/", "v", "/", "a", "#">>, <<"/", "v", "/", "%", "a">> }

\* r.URL.RawQuery
RawQueries == { << >>, <<"f">> }

\* r.Header after the middleware: what the client sent, X-User and X-Role set
HeaderSets ==
    { [authorization |-> "Bearer t", contentType |-> ct, xuser |-> "admin", xrole |-> "admin"] :
        ct \in {"", "application/json"} }

Incoming ==
    [method : Methods, path : ProxyPaths, query : RawQueries,
     headers : HeaderSets, body : {"", "{}"}]

\* what a service answers
Answers ==
    [status : {200, 404, 500}, headers : {[contentType |-> "application/json"]},
     body : {"data"}]

\* targetURL, from the path on: the path, and ? and the query when there is one
TargetURL(path, query) == IF query # << >> THEN path \o <<"?">> \o query ELSE path

\* the first position of character c in str, 0 when there is none
IndexOf(str, c) ==
    IF \E i \in 1..Len(str) : str[i] = c
    THEN CHOOSE i \in 1..Len(str) : str[i] = c /\ \A j \in 1..(i - 1) : str[j] # c
    ELSE 0

\* url.Parse inside http.NewRequest: the fragment is cut off at the first #,
\* the query starts at the first ?, a % without two hex digits is an error
ParseURL(target) ==
    LET hash == IndexOf(target, "#")
        nofrag == IF hash = 0 THEN target ELSE SubSeq(target, 1, hash - 1)
        mark == IndexOf(nofrag, "?")
        path == IF mark = 0 THEN nofrag ELSE SubSeq(nofrag, 1, mark - 1)
        query == IF mark = 0 THEN << >> ELSE SubSeq(nofrag, mark + 1, Len(nofrag))
    IN  [error |-> IndexOf(path, "%") # 0, path |-> path, query |-> query]

\* proxyToService, up to http.NewRequest: the URL the new request carries
Forwarded(in) == ParseURL(TargetURL(in.path, in.query))

NoForward == [method |-> "", path |-> << >>, query |-> << >>,
              headers |-> [authorization |-> "", contentType |-> "", xuser |-> "", xrole |-> ""],
              body |-> ""]
NoAnswer == [status |-> 0, headers |-> [contentType |-> ""], body |-> ""]

\* proxyToService behind the gateway's middleware; reachable: client.Do gets
\* an answer; answer: what the service behind answers
Proxy(in, reachable, answer) ==
    /\ resp = NoResp
    /\ deploy = "split"
    /\ ~reachable => answer = NoAnswer
    /\ reachable => answer # NoAnswer
    /\ req' = [NoReq EXCEPT !.path = <<"volumes">>, !.method = in.method]
    /\ LET url == Forwarded(in)
           call(outcome, fwd, ans, ret) ==
               [incoming |-> in, outcome |-> outcome, forwarded |-> fwd,
                answer |-> ans, returned |-> ret]
           plain(status, body) ==
               [status |-> status, headers |-> [contentType |-> "text/plain"], body |-> body]
           sent == [method |-> in.method, path |-> url.path, query |-> url.query,
                    headers |-> in.headers, body |-> in.body]
       IN  IF url.error
           THEN /\ hop' = <<call("not sent", NoForward, NoAnswer,
                                 plain(500, "Internal server error"))>>
                /\ resp' = [NoResp EXCEPT !.handler = "proxyToService", !.status = 500,
                                          !.body = "Internal server error"]
           ELSE IF ~reachable
           THEN /\ hop' = <<call("unreachable", sent, NoAnswer,
                                 plain(503, "Service unavailable"))>>
                /\ resp' = [NoResp EXCEPT !.handler = "proxyToService", !.status = 503,
                                          !.body = "Service unavailable"]
           ELSE /\ hop' = <<call("answered", sent, answer, answer)>>
                /\ resp' = [NoResp EXCEPT !.handler = "proxyToService",
                                          !.proxied = "volume-service:8084",
                                          !.status = answer.status, !.body = answer.body]
    /\ cli' = << >>
    /\ UNCHANGED <<authVars, credVars, containers, volumes, images, listVars, proc, thr, torn, logs, stat>>

\* the requests that may be in flight at a shutdown, by handler
Kinds == {"changePasswordHandler", "listContainers", "healthCheck"}

\* the handlers that write to the database (the gateway has none)
UsesDatabase(d, kind) == d = "mono" /\ kind = "changePasswordHandler"

\* the listener takes a connection and its handler starts
Accept(kind) ==
    /\ proc.phase \in {"serving", "closing"}
    /\ kind \notin proc.inflight
    /\ proc' = [proc EXCEPT !.inflight = @ \cup {kind}]
    /\ UNCHANGED <<authVars, httpVars, credVars, runtimeVars, listVars, hop, thr, torn, logs, stat>>

\* a handler in flight runs to its end; one that needs the database after
\* db.Close() gets an error from it
Finish(kind) ==
    /\ proc.phase # "exited"
    /\ kind \in proc.inflight
    /\ proc' = [proc EXCEPT !.inflight = @ \ {kind},
                            !.failed = IF UsesDatabase(deploy, kind) /\ proc.db = "closed"
                                       THEN @ \cup {kind} ELSE @]
    /\ UNCHANGED <<authVars, httpVars, credVars, runtimeVars, listVars, hop, thr, torn, logs, stat>>

\* main, woken by SIGINT or SIGTERM: the docker-service calls closeDatabase()
\* and then srv.Shutdown, the gateway calls srv.Shutdown at once
Signal ==
    /\ proc.phase = "serving"
    /\ proc' = IF deploy = "mono" THEN [proc EXCEPT !.phase = "closing", !.db = "closed"]
               ELSE [proc EXCEPT !.phase = "draining"]
    /\ UNCHANGED <<authVars, httpVars, credVars, runtimeVars, listVars, hop, thr, torn, logs, stat>>

\* srv.Shutdown(ctx) closes the listeners and waits
Shutdown ==
    /\ proc.phase = "closing"
    /\ proc' = [proc EXCEPT !.phase = "draining"]
    /\ UNCHANGED <<authVars, httpVars, credVars, runtimeVars, listVars, hop, thr, torn, logs, stat>>

\* srv.Shutdown returns nil once no request is in flight: main returns
Exit ==
    /\ proc.phase = "draining"
    /\ proc.inflight = {}
    /\ proc' = [proc EXCEPT !.phase = "exited"]
    /\ UNCHANGED <<authVars, httpVars, credVars, runtimeVars, listVars, hop, thr, torn, logs, stat>>

\* the 30 seconds of ctx are over with requests in flight: logrus.Fatal
Expire ==
    /\ proc.phase = "draining"
    /\ proc.inflight # {}
    /\ proc' = [proc EXCEPT !.phase = "exited", !.expired = TRUE]
    /\ UNCHANGED <<authVars, httpVars, credVars, runtimeVars, listVars, hop, thr, torn, logs, stat>>

\* the response is written, the handler returns (its locals are gone) and
\* the connection is free for the next request
Deliver ==
    /\ resp # NoResp
    /\ req' = NoReq
    /\ resp' = NoResp
    /\ cli' = << >>
    /\ output' = << >>
    /\ listed' = << >>
    /\ UNCHANGED <<images, authVars, credVars, containers, volumes>>
    /\ hop' = NoHop
    /\ UNCHANGED <<proc, thr, torn, logs, stat>>

\* the clock advances by d ticks
Tick(d) ==
    /\ resp = NoResp
    /\ d > 0
    /\ now + d <= MaxDays * TokenLifetime + MaxTicks
    /\ now' = now + d
    /\ UNCHANGED <<deploy, envSecret, jwtSecret, restarts, issued>>
    /\ UNCHANGED <<httpVars, credVars, runtimeVars, listVars>>
    /\ UNCHANGED procVars

\* the signing process restarts: initAuth runs again
Restart ==
    /\ restarts < MaxRestarts
    /\ resp = NoResp
    /\ restarts' = restarts + 1
    /\ jwtSecret' = InitAuthSecret(envSecret, restarts + 1)
    /\ fileUsers' = IF deploy = "split" THEN InitAuthFile(fileUsers) ELSE fileUsers
    /\ memUsers' = IF deploy = "mono"
                   THEN InitAuthMem(LoadUsersFromDB(<< >>, dbUsers)) ELSE memUsers
    /\ UNCHANGED <<deploy, envSecret, now, issued, dbUsers, lastChange>>
    /\ UNCHANGED <<httpVars, runtimeVars, listVars>>
    /\ UNCHANGED procVars

\* the instants the clock is observed at: MaxTicks ticks around every whole
\* number of token lifetimes
ClockInstants ==
    {d * TokenLifetime + j : d \in 0..MaxDays, j \in 0..MaxTicks}
        \cup {d * TokenLifetime - j : d \in 1..MaxDays, j \in 1..MaxTicks}

\* ----------------------------------------------------------- specifications
InitHttp == AuthInit /\ HttpInit /\ CredInit /\ RuntimeIdle /\ ListIdle

NextHttp ==
    \/ \E u \in Usernames, pw \in Passwords : Login(u, pw, TRUE)
    \/ Login("", "", FALSE)
    \/ resp = NoResp /\ \E r \in Requests, ok \in BOOLEAN : Request(r, ok)
    \/ Deliver
    \/ Tick(TokenLifetime)

SpecHttp == InitHttp /\ [][NextHttp]_vars

NextToken ==
    \/ \E u \in Usernames, pw \in Passwords : Login(u, pw, TRUE)
    \/ Deliver
    \/ \E t \in ClockInstants : Tick(t - now)
    \/ Restart

SpecToken == InitHttp /\ [][NextToken]_vars

\* the credential store under logins and password changes
NextCred ==
    \/ \E u \in Usernames, pw \in Passwords : Login(u, pw, TRUE)
    \/ Login("", "", FALSE)
    \/ resp = NoResp /\ \E u \in Usernames, cur \in Passwords, new \in NewPasswords,
          salt \in Salts, saved \in BOOLEAN : ChangePassword(u, cur, new, salt, TRUE, saved)
    \/ \E u \in Usernames : ChangePassword(u, "", "", 0, FALSE, TRUE)
    \/ Deliver

SpecCred == InitHttp /\ [][NextCred]_vars

\* volume and container deletion against a runtime that holds anything
InitVol == AuthInit /\ HttpInit /\ CredInit /\ RuntimeInit /\ ListIdle

NextVol ==
    \/ \E name \in VolumeNames, force \in BOOLEAN, checked \in BOOLEAN, removed \in BOOLEAN :
          DeleteVolume(name, force, checked, removed)
    \/ \E id \in ContainerIds, force \in BOOLEAN, ok \in BOOLEAN : DeleteContainer(id, force, ok)
    \/ Deliver

SpecVol == InitVol /\ [][NextVol]_vars

\* the list operations on any output of the docker command
NextList ==
    \/ resp = NoResp /\ \E resource \in {"containers", "images", "volumes", "networks"},
          lines \in Outputs, ok \in BOOLEAN : List(resource, lines, ok)
    \/ Deliver

SpecList == InitHttp /\ [][NextList]_vars

\* restarts of a service whose passwords change
NextBoot ==
    \/ resp = NoResp /\ \E u \in Usernames, cur \in Passwords, new \in Passwords,
          salt \in Salts, saved \in BOOLEAN : ChangePassword(u, cur, new, salt, TRUE, saved)
    \/ Deliver
    \/ Restart

SpecBoot == InitHttp /\ [][NextBoot]_vars

\* a token's life: its user logs out and changes the password, days pass,
\* the service restarts
NextSession ==
    \/ \E u \in Usernames, pw \in Passwords : Login(u, pw, TRUE)
    \/ issued # NoIssue /\ Logout(issued.token.username)
    \/ resp = NoResp /\ issued # NoIssue /\ \E cur \in Passwords, new \in Passwords :
          ChangePassword(issued.token.username, cur, new, 0, TRUE, TRUE)
    \/ Deliver
    \/ Tick(TokenLifetime)
    \/ Restart

SpecSession == InitHttp /\ [][NextSession]_vars

\* admin and bob log in and use their tokens on every route
NextRole ==
    \/ \E u \in Usernames, pw \in Passwords : Login(u, pw, TRUE)
    \/ resp = NoResp /\ \E r \in Requests, ok \in BOOLEAN : RequestAs(r, ok)
    \/ Deliver

SpecRole == InitHttp /\ [][NextRole]_vars

\* containers are started, stopped, restarted, created and deleted
NextLife ==
    \/ resp = NoResp /\ \E op \in LifecycleOps, id \in ContainerIds, ok \in BOOLEAN :
          Lifecycle(op, id, ok)
    \/ resp = NoResp /\ \E image \in {<<"N", "g">>}, ok \in BOOLEAN :
          RunContainer("json", image, ok)
    \/ resp = NoResp /\ \E id \in ContainerIds, force \in BOOLEAN, ok \in BOOLEAN :
          DeleteContainer(id, force, ok)
    \/ Deliver

SpecLife == InitVol /\ [][NextLife]_vars

\* images are searched and pulled
InitSearch == AuthInit /\ HttpInit /\ CredInit /\ ImagesInit /\ ListIdle

NextSearch ==
    \/ resp = NoResp /\ \E q \in Queries, localOK \in BOOLEAN, hubOK \in BOOLEAN :
          SearchImages(q, localOK, hubOK)
    \/ Deliver

SpecSearch == InitSearch /\ [][NextSearch]_vars

\* a runtime whose containers all run and that holds no image yet: whatever
\* is stopped or pulled later was stopped or pulled through the API
InitFresh ==
    /\ AuthInit /\ HttpInit /\ CredInit /\ ListIdle
    /\ \E ids \in SUBSET ContainerIds :
          containers = [c \in ids |-> [volume |-> "", running |-> TRUE]]
    /\ volumes = {}
    /\ images = {}
    /\ cli = << >>

NextFresh ==
    \/ resp = NoResp /\ \E op \in LifecycleOps, id \in ContainerIds, ok \in BOOLEAN :
          Lifecycle(op, id, ok)
    \/ resp = NoResp /\ \E image \in {<<"N", "g">>, <<"r", "e", ":", "7">>}, ok \in BOOLEAN :
          PullImage("json", image, ok)
    \/ resp = NoResp /\ \E all \in {"", "true", "false"}, long \in SUBSET ContainerIds,
                           ok \in BOOLEAN : ListContainers(all, long, ok)
    \/ resp = NoResp /\ \E long \in {{}, {ImageOrder[1]}}, ok \in BOOLEAN : ListImages(long, ok)
    \/ Deliver

SpecFresh == InitFresh /\ [][NextFresh]_vars

\* the process serves, is signalled and shuts down
NextStop ==
    \/ \E kind \in Kinds : Accept(kind)
    \/ \E kind \in Kinds : Finish(kind)
    \/ Signal
    \/ Shutdown
    \/ Exit
    \/ Expire

SpecStop == InitHttp /\ [][NextStop]_vars

\* the gateway forwards requests to a service behind it
NextProxy ==
    \/ resp = NoResp /\ \E in \in Incoming, answer \in Answers : Proxy(in, TRUE, answer)
    \/ resp = NoResp /\ \E in \in Incoming : Proxy(in, FALSE, NoAnswer)
    \/ Deliver

SpecProxy == InitHttp /\ [][NextProxy]_vars

\* requests with a JSON body: login, change-password, run, pull
NextBody ==
    \/ \E u \in {"", "admin"}, pw \in {"", "admin123"} : Login(u, pw, TRUE)
    \/ Login("", "", FALSE)
    \/ resp = NoResp /\ \E cur \in {"admin123"}, new \in Passwords, bodyOK \in BOOLEAN :
          ChangePassword("admin", cur, new, 0, bodyOK, TRUE)
    \/ resp = NoResp /\ \E body \in {"malformed", "json"}, image \in ImageArgs, ok \in BOOLEAN :
          RunContainer(body, image, ok)
    \/ resp = NoResp /\ \E body \in {"malformed", "json"}, image \in ImageArgs, ok \in BOOLEAN :
          PullImage(body, image, ok)
    \/ Deliver

SpecBody == InitHttp /\ [][NextBody]_vars

\* getCPUMetrics: the line is read and the metrics are returned
GetCPUMetrics ==
    /\ stat.metrics = NoMetrics
    /\ stat' = [stat EXCEPT !.metrics = CPUMetrics(stat.fields)]
    /\ UNCHANGED <<authVars, httpVars, credVars, runtimeVars, listVars, hop, proc, thr, torn, logs>>

\* the metrics were handed out; the next request reads the line again
ForgetCPUMetrics ==
    /\ stat.metrics # NoMetrics
    /\ stat' = [stat EXCEPT !.metrics = NoMetrics]
    /\ UNCHANGED <<authVars, httpVars, credVars, runtimeVars, listVars, hop, proc, thr, torn, logs>>

\* the docker-service with any aggregate line in /proc/stat
InitCpu ==
    /\ AuthInit /\ deploy = "mono" /\ envSecret = ""
    /\ req = NoReq /\ resp = NoResp /\ hop = NoHop /\ proc = Serving
    /\ thr = NoThreads /\ torn = FALSE /\ logs = NoLogs
    /\ CredInit /\ RuntimeIdle /\ ListIdle
    /\ \E fields \in StatLines : stat = [NoStat EXCEPT !.fields = fields]

NextCpu == GetCPUMetrics \/ ForgetCPUMetrics

SpecCpu == InitCpu /\ [][NextCpu]_vars

\* ------------------------------------------------------------------ the log
\* FileStorage.LogEntry on the entries of logs.json; call: the number of the
\* call, which stands for the level, message, service and data it carries;
\* loaded: loadLogs returned the entries (on an error the code starts over
\* with an empty list)
AppendLog(entries, call, loaded) ==
    LET old == IF loaded THEN entries ELSE << >>
        new == Append(old, [id |-> Len(old) + 1, call |-> call])
    IN  IF Len(new) > LogCap THEN SubSeq(new, Len(new) - LogCap + 1, Len(new)) ELSE new

\* a handler of the auth-service (login, logout, change-password, startup)
\* calls Storage.LogEntry and ignores what it returns
LogEntry(loaded) ==
    /\ logs.calls < MaxCalls
    /\ ~loaded => logs.calls < MaxLoadFailCall
    /\ logs' = [file |-> AppendLog(logs.file, logs.calls + 1, loaded),
                calls |-> logs.calls + 1]
    /\ UNCHANGED <<authVars, httpVars, credVars, runtimeVars, listVars, hop, proc, thr, torn, stat>>

\* the auth-service with an empty data directory
InitLog == InitHttp /\ deploy = "split" /\ envSecret = ""

NextLog == \E loaded \in BOOLEAN : LogEntry(loaded)

SpecLog == InitLog /\ [][NextLog]_vars

\* ------------------------------------------------ the gateway, end to end
\* the X-User and X-Role headers a client may put into its own request
ClientIdentities == [xuser : {"", "admin"}, xrole : {"", "admin"}]

\* headers that keep the value the client sent when there is one
HeaderSetIfAbsent(headers, xuser, xrole) ==
    [headers EXCEPT !.xuser = IF @ = "" THEN xuser ELSE @,
                    !.xrole = IF @ = "" THEN xrole ELSE @]

\* r.Header.Set("X-User", claims.Username); r.Header.Set("X-Role", claims.Role)
HeaderSet(headers, xuser, xrole) == [headers EXCEPT !.xuser = xuser, !.xrole = xrole]

\* r.Header as next sees it: untouched where the middleware is not in the
\* chain or skips the path, else with the claims of the token it validated
HeadersBehindMiddleware(rt, v, headers) ==
    IF rt.wrapped /\ v.pass /\ v.checked THEN HeaderSet(headers, v.xuser, v.xrole)
    ELSE headers

\* a request at the gateway's port, with the identity headers the client
\* put in, followed through authMiddleware and proxyToService to the service
\* behind; reachable: client.Do gets an answer
Forward(r, id, reachable) ==
    /\ resp = NoResp
    /\ deploy = "split"
    /\ req' = [r EXCEPT !.xuser = id.xuser]
    /\ cli' = << >>
    /\ LET rt == FindRoute(RoutesGateway, r)
           v == IF rt.wrapped THEN AuthMiddlewareGateway(r, envSecret, now)
                ELSE Verdict(TRUE, 0, "", "", "", FALSE)
           received == [authorization |-> r.auth, contentType |-> "",
                        xuser |-> id.xuser, xrole |-> id.xrole]
           sent == HeadersBehindMiddleware(rt, v, received)
           in == [method |-> r.method, path |-> r.path, query |-> << >>,
                  headers |-> received, body |-> ""]
           out == IF IsProxied("split", rt) THEN ProxyToService(reachable, 200)
                  ELSE ServeGateway(rt.handler, reachable)
       IN  IF rt = NoRoute
           THEN /\ resp' = [NoResp EXCEPT !.status = NoRouteStatus(RoutesGateway, r)]
                /\ hop' = NoHop
           ELSE IF ~v.pass
           THEN /\ resp' = [NoResp EXCEPT !.status = v.status, !.body = v.body,
                                          !.checked = v.checked]
                /\ hop' = NoHop
           ELSE /\ resp' = [NoResp EXCEPT !.status = out.status, !.body = out.body,
                                          !.handler = rt.handler,
                                          !.proxied = IF IsProxied("split", rt)
                                                      THEN rt.handler ELSE "",
                                          !.xuser = sent.xuser, !.xrole = sent.xrole,
                                          !.checked = v.checked]
                /\ hop' = IF ~IsProxied("split", rt) THEN NoHop
                          ELSE <<[incoming |-> in,
                                  outcome |-> IF reachable THEN "answered" ELSE "unreachable",
                                  forwarded |-> [in EXCEPT !.headers = sent],
                                  answer |-> NoAnswer, returned |-> NoAnswer]>>
    /\ UNCHANGED <<authVars, credVars, containers, volumes, images, listVars>>
    /\ UNCHANGED <<proc, thr, torn, logs, stat>>

\* the gateway in front of the auth-service: logins and forwarded requests
NextGate ==
    \/ \E u \in Usernames, pw \in Passwords : Login(u, pw, TRUE)
    \/ resp = NoResp /\ \E r \in Requests, id \in ClientIdentities, reachable \in BOOLEAN :
          Forward(r, id, reachable)
    \/ Deliver

SpecGate == InitHttp /\ [][NextGate]_vars

\* ------------------------------------------------------ concurrent requests
\* net/http runs every request in a goroutine of its own; neither the file
\* storage nor the users map of the docker-service is guarded by a lock, so
\* the handlers interleave at every access to the store
Threads == 1..MaxThreads

\* a request not yet arrived
NoThread == [op |-> "", pc |-> "idle", username |-> "", password |-> "",
             hash |-> NoHash, users |-> << >>, status |-> 0, name |-> "", inUse |-> FALSE]

\* loginHandler, and changePasswordHandler up to the hashed new password:
\* the record is read (GetUser loads users.json, the docker-service reads
\* the map) and the password compared
Arrive(t, op, username, password, new, salt) ==
    /\ thr[t].pc = "idle"
    /\ op = "login" => new = "" /\ salt = 0
    /\ op = "changePassword" => new # ""
    /\ LET me == [NoThread EXCEPT !.op = op, !.username = username, !.password = password,
                                  !.hash = IF op = "login" THEN NoHash
                                           ELSE GenerateFromPassword(new, salt)]
           done(status) == [me EXCEPT !.pc = "done", !.status = status]
           known == IF deploy = "mono" THEN username \in DOMAIN memUsers
                    ELSE ~torn /\ GetUser(fileUsers, username) # NoUser
           stored == IF deploy = "mono" THEN memUsers[username].passwordHash
                     ELSE GetUser(fileUsers, username).passwordHash
       IN  thr' = [thr EXCEPT ![t] =
                     IF ~known THEN done(IF op = "login" THEN 401 ELSE 404)
                     ELSE IF ~CompareHashAndPassword(stored, password)
                     THEN done(IF op = "login" \/ deploy = "mono" THEN 401 ELSE 400)
                     ELSE IF op = "login" THEN done(200)
                     ELSE [me EXCEPT !.pc = "verified"]]
    /\ UNCHANGED <<authVars, httpVars, credVars, runtimeVars, listVars, hop, proc, torn, logs, stat>>

\* FileStorage.UpdateUserPassword up to the call of saveUsers: the list is
\* loaded and the record changed in the copy
LoadUsers(t) ==
    /\ deploy = "split"
    /\ thr[t].pc = "verified"
    /\ thr' = [thr EXCEPT ![t] =
                 IF torn \/ GetUser(fileUsers, thr[t].username) = NoUser
                 THEN [@ EXCEPT !.pc = "done", !.status = 500]
                 ELSE [@ EXCEPT !.pc = "loaded",
                                !.users = UpdateUserPassword(fileUsers, thr[t].username,
                                                             thr[t].hash, now)]]
    /\ UNCHANGED <<authVars, httpVars, credVars, runtimeVars, listVars, hop, proc, torn, logs, stat>>

\* saveUsers, first half: os.WriteFile opens users.json with O_TRUNC
Truncate(t) ==
    /\ thr[t].pc = "loaded"
    /\ torn' = TRUE
    /\ thr' = [thr EXCEPT ![t].pc = "writing"]
    /\ UNCHANGED <<authVars, httpVars, credVars, runtimeVars, listVars, hop, proc, logs, stat>>

\* saveUsers, second half: the list is written and the file closed; the
\* handler answers 200
WriteFile(t) ==
    /\ thr[t].pc = "writing"
    /\ fileUsers' = thr[t].users
    /\ torn' = FALSE
    /\ thr' = [thr EXCEPT ![t].pc = "done", ![t].status = 200]
    /\ UNCHANGED <<authVars, httpVars, memUsers, dbUsers, lastChange, runtimeVars, listVars,
                   hop, proc, logs, stat>>

\* docker-service changePasswordHandler: users[username] = user
MapWrite(t) ==
    /\ deploy = "mono"
    /\ thr[t].pc = "verified"
    /\ memUsers' = [memUsers EXCEPT ![thr[t].username].passwordHash = thr[t].hash]
    /\ thr' = [thr EXCEPT ![t].pc = "stored"]
    /\ UNCHANGED <<authVars, httpVars, fileUsers, dbUsers, lastChange, runtimeVars, listVars,
                   hop, proc, torn, logs, stat>>

\* docker-service changePasswordHandler: updateUserPassword, then 200
UpdateDB(t) ==
    /\ thr[t].pc = "stored"
    /\ dbUsers' = UpdateUserPasswordDB(dbUsers, thr[t].username, thr[t].hash)
    /\ thr' = [thr EXCEPT ![t].pc = "done", ![t].status = 200]
    /\ UNCHANGED <<authVars, httpVars, fileUsers, memUsers, lastChange, runtimeVars, listVars,
                   hop, proc, torn, logs, stat>>

\* two goroutines in the assignment to the map at once: the runtime may
\* detect it ("fatal error: concurrent map writes") and end the process
Fatal ==
    /\ deploy = "mono"
    /\ \E t1, t2 \in Threads : t1 # t2 /\ thr[t1].pc = "verified" /\ thr[t2].pc = "verified"
    /\ thr' = [t \in Threads |-> [thr[t] EXCEPT !.pc = "killed"]]
    /\ proc' = [proc EXCEPT !.phase = "exited"]
    /\ UNCHANGED <<authVars, httpVars, credVars, runtimeVars, listVars, hop, torn, logs, stat>>

\* MaxThreads requests at a time against the store as startup left it
InitRace ==
    /\ AuthInit /\ envSecret = ""
    /\ req = NoReq /\ resp = NoResp /\ hop = NoHop /\ proc = Serving
    /\ thr = [t \in Threads |-> NoThread] /\ torn = FALSE /\ logs = NoLogs /\ stat = NoStat
    /\ CredInit /\ RuntimeIdle /\ ListIdle

NextRace ==
    \/ \E t \in Threads, u \in Usernames, pw \in Passwords : Arrive(t, "login", u, pw, "", 0)
    \/ \E t \in Threads, u \in Usernames, pw \in Passwords, new \in {"pw1", "pw2"}, salt \in Salts :
          Arrive(t, "changePassword", u, pw, new, salt)
    \/ \E t \in Threads : LoadUsers(t)
    \/ \E t \in Threads : Truncate(t)
    \/ \E t \in Threads : WriteFile(t)
    \/ \E t \in Threads : MapWrite(t)
    \/ \E t \in Threads : UpdateDB(t)
    \/ Fatal

SpecRace == InitRace /\ [][NextRace]_vars

\* ---------------------------------------------- deletion against creation
\* volume-service deleteVolume without force, up to the answer of
\* isVolumeInUse; checked: `docker ps -a --filter volume=` succeeds
CheckVolume(t, name, checked) ==
    /\ deploy = "split"
    /\ thr[t].pc = "idle"
    /\ LET me == [NoThread EXCEPT !.op = "deleteVolume", !.name = name]
       IN  thr' = [thr EXCEPT ![t] =
                     IF ~checked THEN [me EXCEPT !.pc = "done", !.status = 500]
                     ELSE IF IsVolumeInUse(name) THEN [me EXCEPT !.pc = "done", !.status = 409]
                     ELSE [me EXCEPT !.pc = "checked"]]
    /\ UNCHANGED <<authVars, httpVars, credVars, runtimeVars, listVars, hop, proc, torn, logs, stat>>

\* deleteVolume from dockerRemoveVolume on: `docker volume rm <name>` is
\* issued against the runtime as it is by now; removed: the daemon is there
RemoveVolume(t, removed) ==
    /\ thr[t].pc = "checked"
    /\ LET failed == DockerRemoveVolumeError(thr[t].name, FALSE, removed)
       IN  /\ thr' = [thr EXCEPT ![t].pc = "issued",
                                 ![t].inUse = IsVolumeInUse(thr[t].name),
                                 ![t].status = IF failed THEN 500 ELSE 200]
           /\ volumes' = IF failed THEN volumes ELSE volumes \ {thr[t].name}
    /\ UNCHANGED <<authVars, httpVars, credVars, containers, images, cli, listVars,
                   hop, proc, torn, logs, stat>>

\* container-service createContainer with one volume mapping: `docker run
\* -d -v <volume>:<path>` creates the container, and the volume if it is new
CreateContainer(id, volume) ==
    /\ deploy = "split"
    /\ id \notin DOMAIN containers
    /\ containers' = [c \in DOMAIN containers \cup {id} |->
                         IF c = id THEN [volume |-> volume, running |-> TRUE]
                         ELSE containers[c]]
    /\ volumes' = volumes \cup {volume}
    /\ UNCHANGED <<authVars, httpVars, credVars, images, cli, listVars, procVars>>

\* the answer is out and the goroutine gone
Depart(t) ==
    /\ thr[t].pc \in {"done", "issued"}
    /\ thr[t].op = "deleteVolume"
    /\ thr' = [thr EXCEPT ![t] = NoThread]
    /\ UNCHANGED <<authVars, httpVars, credVars, runtimeVars, listVars, hop, proc, torn, logs, stat>>

\* the services behind the gateway against a runtime that holds anything
InitToctou ==
    /\ AuthInit /\ deploy = "split" /\ envSecret = ""
    /\ req = NoReq /\ resp = NoResp /\ hop = NoHop /\ proc = Serving
    /\ thr = [t \in Threads |-> NoThread] /\ torn = FALSE /\ logs = NoLogs /\ stat = NoStat
    /\ CredInit /\ RuntimeInit /\ ListIdle

NextToctou ==
    \/ \E t \in Threads, name \in VolumeNames, checked \in BOOLEAN : CheckVolume(t, name, checked)
    \/ \E t \in Threads, removed \in BOOLEAN : RemoveVolume(t, removed)
    \/ \E id \in ContainerIds, volume \in VolumeNames : CreateContainer(id, volume)
    \/ \E t \in Threads : Depart(t)

SpecToctou == InitToctou /\ [][NextToctou]_vars

\* ----------------------------------------------------- startup, once more
\* saveUserToDB: INSERT OR REPLACE INTO users
SaveUserToDB(db, user) ==
    [name \in DOMAIN db \cup {user.username} |->
        IF name = user.username THEN user ELSE db[name]]

\* the process starts again: main runs initDatabase and initAuth; loaded:
\* loadUsersFromDB returns the rows (main goes on without them when it fails)
Startup(loaded) ==
    /\ restarts < MaxRestarts
    /\ resp = NoResp
    /\ deploy = "split" => loaded
    /\ restarts' = restarts + 1
    /\ jwtSecret' = InitAuthSecret(envSecret, restarts + 1)
    /\ fileUsers' = IF deploy = "split" THEN InitAuthFile(fileUsers) ELSE fileUsers
    /\ LET before == IF loaded THEN LoadUsersFromDB(<< >>, dbUsers) ELSE << >>
           after == InitAuthMem(before)
       IN  IF deploy = "split"
           THEN UNCHANGED <<memUsers, dbUsers>>
           ELSE /\ memUsers' = after
                /\ dbUsers' = IF DOMAIN before = {}
                              THEN SaveUserToDB(dbUsers, after[AdminUsername])
                              ELSE dbUsers
    /\ UNCHANGED <<deploy, envSecret, now, issued, lastChange>>
    /\ UNCHANGED <<httpVars, runtimeVars, listVars>>
    /\ UNCHANGED procVars

\* the credential store under startups and password changes
NextStore ==
    \/ resp = NoResp /\ \E u \in Usernames, cur \in Passwords, new \in Passwords,
          salt \in Salts : ChangePassword(u, cur, new, salt, TRUE, TRUE)
    \/ Deliver
    \/ \E loaded \in BOOLEAN : Startup(loaded)

SpecStore == InitHttp /\ [][NextStore]_vars

\* ------------------------------------------------- claims on the HTTP layer
ResourceRoots == {"containers", "images", "volumes", "networks"}

\* the request just handled carried a token the public middleware validates
CarriesValidToken ==
    /\ req.auth = "Bearer"
    /\ ValidateToken(req.token, VerifySecret(deploy, jwtSecret, envSecret), now)

ToResource == resp # NoResp /\ req.path # << >> /\ req.path[1] \in ResourceRoots

C2_EveryOtherRouteNeedsToken ==
    (/\ resp # NoResp
     /\ resp.handler # ""
     /\ req.path \notin {<<"auth", "login">>, <<"health">>}) => CarriesValidToken

\* C4: whenever the middleware hands a token to validateToken, the request
\* is let through exactly if the token carries an HMAC algorithm, was signed
\* with the verifying process's secret over the claims it now carries, and
\* is not expired; every other token is answered 401.
C4_OnlyGenuineTokensPass ==
    resp.checked =>
        (resp.status # 401 <=>
            /\ req.token.alg \in HMACAlgs
            /\ req.token.sigKey = VerifySecret(deploy, jwtSecret, envSecret)
            /\ req.token.sigAlg = req.token.alg
            /\ req.token.sigUser = req.token.username
            /\ req.token.sigRole = req.token.role
            /\ req.token.sigExp = req.token.exp
            /\ now < req.token.exp * TicksPerSecond)

C4_Witness ==
    /\ resp.checked
    /\ resp.status = 401
    /\ req.token.alg = "none"
    /\ issued # NoIssue
    /\ ValidateToken(issued.token, VerifySecret(deploy, jwtSecret, envSecret), now)

\* C5: in the split deployment, the token of a successful login is accepted
\* by the gateway's middleware on a protected request that follows at once,
\* with JWT_SECRET set or unset.
C5_GatewayAcceptsLoginToken ==
    (/\ deploy = "split"
     /\ resp # NoResp
     /\ issued # NoIssue
     /\ issued.issuedAt = now
     /\ issued.gen = restarts
     /\ req.auth = "Bearer"
     /\ req.token = issued.token
     /\ FindRoute(Routes(deploy), req).wrapped) => resp.status # 401

\* ------------------------------------------------- claims on token lifetime
SecretUnchangedSinceIssue == jwtSecret = InitAuthSecret(envSecret, issued.gen)

\* C3: while the signing secret is the one the token was issued under,
\* validateToken accepts the token of generateToken exactly as long as the
\* clock is strictly before the returned expiresAt; expiresAt is the token's
\* exp claim and lies 24 hours after the (Unix-second) time of issuance.
C3_ValidUntilExpiresAt ==
    (issued # NoIssue /\ SecretUnchangedSinceIssue) =>
        /\ ValidateToken(issued.token, jwtSecret, now)
              <=> now < issued.expiresAt * TicksPerSecond
        /\ issued.expiresAt = issued.token.exp
        /\ issued.expiresAt = Unix(issued.issuedAt) + TokenLifetimeHours * 3600

C3_Witness ==
    /\ issued # NoIssue
    /\ SecretUnchangedSinceIssue
    /\ restarts > 0
    /\ issued.issuedAt % TicksPerSecond # 0
    /\ now = issued.expiresAt * TicksPerSecond
    /\ ~ValidateToken(issued.token, jwtSecret, now)

\* --------------------------------------------- claims on the credential store
\* a record for username is stored and was made from this password
RecordMatches(username, pw) ==
    IF deploy = "mono"
    THEN username \in DOMAIN memUsers /\ memUsers[username].passwordHash.of = pw
    ELSE \E i \in 1..Len(fileUsers) :
            fileUsers[i].username = username /\ fileUsers[i].passwordHash.of = pw

LoginAnswered ==
    /\ resp # NoResp
    /\ resp.handler = "loginHandler"
    /\ resp.body # "Invalid request body"

InvalidCredentialsResponse ==
    [NoResp EXCEPT !.handler = "loginHandler",
                   !.proxied = IF deploy = "split" THEN "auth-service:8081" ELSE "",
                   !.status = 401, !.body = "Invalid credentials"]

C7_ChangedPasswordHolds ==
    \A u \in Usernames :
        (lastChange[u] # NoChange /\ lastChange[u].new # lastChange[u].old) =>
            /\ AuthenticateUser(deploy, u, lastChange[u].new) = "nil"
            /\ AuthenticateUser(deploy, u, lastChange[u].old) # "nil"

\* the change-password request of this step names a stored user and a
\* current password that is not the one the stored hash was made from
WrongCurrentPassword ==
    /\ resp = NoResp
    /\ resp'.handler = "changePasswordHandler"
    /\ resp'.body # "Invalid request body"
    /\ \E pw \in Passwords : RecordMatches(req'.xuser, pw)
    /\ ~RecordMatches(req'.xuser, req'.password)

\* C8: a changePassword whose current password does not match the stored
\* hash is rejected with the invalid-credentials outcome (401) and leaves
\* the credential records as they were.
C8_WrongCurrentRejectedAsInvalidCredentials ==
    [][WrongCurrentPassword => (resp'.status = 401 /\ UNCHANGED credVars)]_vars

\* ------------------------------------------------- claims on volume deletion
\* C9: in the volume service and in the docker-service alike, a deleteVolume
\* without force on a volume some container references (its in-use check
\* having been answered) returns 409 and issues no `docker volume rm`; with
\* force the in-use check is skipped and the removal command is issued.
C9_InUseVolumeNeedsForce ==
    (resp # NoResp /\ resp.handler = "deleteVolume") =>
        /\ (/\ ~req.force
            /\ IsVolumeInUse(req.path[2])
            /\ resp.body # "Failed to check volume usage") =>
                /\ resp.status = 409
                /\ \A i \in 1..Len(cli) : cli[i] \notin {"volume rm", "volume rm -f"}
        /\ req.force => cli = <<"volume rm -f">>

\* ------------------------------------------------- claims on list operations
\* a non-empty line that decodes into the record type
ParsesAsRecord(line) == line.kind \in {"object", "null"}

ListAnswered ==
    /\ resp # NoResp
    /\ resp.handler \in {"listContainers", "listImages", "listVolumes", "listNetworks"}
    /\ resp.body # "docker command failed"

\* C10: a list operation whose docker command succeeded answers 200 whatever
\* the lines are, and returns, in the order of the lines, one record for
\* every line that parses and none for any other line; so it never returns
\* more records than there were lines.
C10_OneRecordPerParsableLine ==
    ListAnswered =>
        /\ resp.status = 200
        /\ listed = Records(SelectSeq(output, ParsesAsRecord))
        /\ Len(listed) <= Len(output)

\* ----------------------------------------------------------- claims on startup
\* the records the service authenticates against
AdminRecordExists ==
    IF deploy = "mono"
    THEN AdminUsername \in DOMAIN memUsers /\ memUsers[AdminUsername].role = "admin"
    ELSE GetUser(fileUsers, AdminUsername) # NoUser
         /\ GetUser(fileUsers, AdminUsername).role = "admin"

\* the persisted record of the admin username, NoHash when there is none
PersistedAdminHash ==
    IF deploy = "mono"
    THEN IF AdminUsername \in DOMAIN dbUsers
         THEN dbUsers[AdminUsername].passwordHash ELSE NoHash
    ELSE GetUser(fileUsers, AdminUsername).passwordHash

\* C11: when startup has run, a record with role admin exists for the
\* configured admin username; a record persisted for that username before
\* the startup is kept as it was (its hash is not reset); and running the
\* startup once more changes nothing.
C11_StartupBootstrapsAdminOnce ==
    [][restarts' # restarts =>
          /\ AdminRecordExists'
          /\ PersistedAdminHash # NoHash => PersistedAdminHash' = PersistedAdminHash
          /\ InitAuthFile(fileUsers') = fileUsers'
          /\ deploy = "mono" => InitAuthMem(LoadUsersFromDB(<< >>, dbUsers')) = memUsers']_vars

\* ------------------------------------------------------ claims on revocation
\* C12: whatever its user did since (logout, change of password), the token
\* of a login is accepted by validateToken exactly as long as it is not
\* expired and the secret is the one it was signed with; with JWT_SECRET
\* unset the secret is another one after every restart, with JWT_SECRET set
\* it never changes.
C12_OnlyExpiryOrNewSecretRevokes ==
    issued # NoIssue =>
        /\ ValidateToken(issued.token, jwtSecret, now)
              <=> (now < issued.expiresAt * TicksPerSecond
                   /\ jwtSecret = issued.token.sigKey)
        /\ envSecret = "" => (jwtSecret = issued.token.sigKey <=> restarts = issued.gen)
        /\ envSecret # "" => jwtSecret = issued.token.sigKey

C12_Witness ==
    /\ issued # NoIssue
    /\ resp.handler = "changePasswordHandler"
    /\ resp.status = 200
    /\ req.xuser = issued.token.username
    /\ req.newPassword # req.password
    /\ restarts > issued.gen
    /\ ValidateToken(issued.token, jwtSecret, now)

\* ------------------------------------------------------------ claims on roles
Roles == {"admin", "user"}

\* the answered request went through the middleware to a handler
PassedMiddleware ==
    /\ resp # NoResp
    /\ FindRoute(Routes(deploy), req) # NoRoute
    /\ FindRoute(Routes(deploy), req).wrapped
    /\ resp.checked
    /\ resp.xrole \in Roles

LogViewAdminOnly ==
    resp.handler = "getLogsHandler" /\ resp.status # 503 =>
        IF resp.xrole = "admin" THEN resp.status = 200 /\ resp.body = "log entries"
        ELSE resp.status = 403 /\ resp.body = "Insufficient permissions"

\* C13 as stated: log entries only for role admin, 403 without log data for
\* any other role; on every other protected endpoint the whole answer is the
\* same whichever role the caller has.
C13_RoleMattersOnlyForLogs ==
    PassedMiddleware =>
        /\ LogViewAdminOnly
        /\ resp.handler # "getLogsHandler" =>
              \A role \in Roles, ok \in BOOLEAN :
                  Answer(deploy, FindRoute(Routes(deploy), req), resp.xuser, role, ok)
                    = Answer(deploy, FindRoute(Routes(deploy), req), resp.xuser, resp.xrole, ok)

\* C13, amended: log entries only for role admin, 403 without log data for
\* any other role; on every other protected endpoint status, message and
\* docker commands are the same whichever role the caller has, and the one
\* thing that follows the role is the role field /auth/me reports.
C13_RoleMattersOnlyForLogsAndMe ==
    PassedMiddleware =>
        /\ LogViewAdminOnly
        /\ resp.handler # "getLogsHandler" =>
              \A role \in Roles, ok \in BOOLEAN :
                  LET rt == FindRoute(Routes(deploy), req)
                      a == Answer(deploy, rt, resp.xuser, role, ok)
                      b == Answer(deploy, rt, resp.xuser, resp.xrole, ok)
                  IN  /\ a.status = b.status
                      /\ a.body = b.body
                      /\ a.commands = b.commands
                      /\ a.role # b.role => Target(deploy, rt) = "meHandler"
        /\ resp.handler = "meHandler" /\ resp.status = 200 => resp.role = resp.xrole

C13_Witness ==
    /\ PassedMiddleware
    /\ resp.handler = "getLogsHandler"
    /\ resp.xrole = "user"
    /\ resp.status = 403
    /\ req.token = issued.token

\* --------------------------------------------------- claims on request bodies
\* the answered request had a body that is not JSON, or one without its image
BadBody ==
    /\ resp.handler \in {"runContainer", "createContainer", "pullImage"}
    /\ req.body = "malformed" \/ req.image = << >>

\* C14: a body that is not valid JSON or lacks a required field (an empty
\* image for run or pull) is answered 400, and no docker command is spawned
\* for that request.
C14_BadBodyIs400WithoutSubprocess ==
    BadBody => resp.status = 400 /\ cli = << >>

\* ------------------------------------------------- claims on failed commands
\* the answered request ran a start, stop, restart or create that failed
FailedMutation ==
    /\ resp.handler \in {"startContainer", "stopContainer", "restartContainer",
                          "runContainer", "createContainer"}
    /\ cli # << >>
    /\ resp.status # 200

\* C15: when the docker command of a mutating operation fails, the handler
\* spawns no further command for the request, answers 500, and its message
\* carries the text the CLI wrote to stderr.
C15_FailureIs500WithStderr ==
    FailedMutation =>
        /\ Len(cli) = 1
        /\ resp.status = 500
        /\ resp.detail = Stderr

\* ------------------------------------------------------ claims on image search
SearchAnswered == resp.handler = "searchImages" /\ req.query # << >>

\* C16: a search with a non-empty q is answered 200 with the local and the
\* registry results under their own keys; when one source fails the other
\* one's results are still there.
C16_SearchToleratesOneFailure ==
    SearchAnswered =>
        /\ resp.status = 200
        /\ "Failed to search local images" \notin resp.logged
              => resp.local = SearchLocalImages(deploy, req.query, images)
        /\ "Failed to search Docker Hub" \notin resp.logged
              => resp.hub = SearchDockerHub(req.query)

C16_Witness ==
    /\ SearchAnswered
    /\ resp.logged = {"Failed to search Docker Hub"}
    /\ resp.status = 200
    /\ resp.local # {}
    /\ resp.hub = {}
    /\ SearchDockerHub(req.query) # {}

\* repository:tag of a listed image
RepoTag(img) == img.repository \o <<":">> \o img.tag

\* C17: the local results of a search are exactly the locally listed images
\* whose repository:tag contains q, compared without regard to case.
C17_LocalResultsAreTheMatches ==
    SearchAnswered /\ "Failed to search local images" \notin resp.logged =>
        resp.local = { img \in images : Contains(ToLower(RepoTag(img)), ToLower(req.query)) }

\* ----------------------------------------------------- claims on fresh lists
\* C18: every list asks the runtime again, so that it reflects the mutations
\* made through the API before it: a container stopped with success is
\* listed with state exited (unless the list asked for running containers
\* only), and an image pulled with success is listed with its repository:tag.
C18_ListReflectsMutations ==
    /\ resp.handler = "listContainers" /\ resp.status = 200 /\ req.all # "false" =>
          /\ cli # << >>
          /\ \A id \in DOMAIN containers :
                ~containers[id].running =>
                    \E i \in 1..Len(listed) : listed[i] = [name |-> id, state |-> "exited"]
    /\ resp.handler = "listImages" /\ resp.status = 200 =>
          /\ cli # << >>
          /\ \A img \in images :
                \E i \in 1..Len(listed) : listed[i].repoTag = RepoTag(img)

\* --------------------------------------------------------- claims on shutdown
\* C19: after the signal no new connection is accepted and the requests in
\* flight run to their end within 30 seconds; what they use stays available
\* meanwhile: the database is closed only once no request is in flight or
\* the 30 seconds are over, so no request fails on a closed database.
C19_DatabaseOutlivesRequests ==
    /\ proc.db = "closed" => proc.inflight = {} \/ proc.expired
    /\ proc.failed = {}

\* ----------------------------------------------------------- claims on the proxy
\* C20: a proxied request reaches the service behind the gateway with the
\* method, path, query string, headers (identity headers included) and body
\* the gateway received, and the client gets the service's status, headers
\* and body as they are; when the service cannot be reached the client gets
\* 503 after that one attempt.
C20_ProxyIsTransparent ==
    hop # NoHop =>
        /\ Len(hop) = 1
        /\ hop[1].outcome \in {"answered", "unreachable"}
        /\ hop[1].forwarded.method = hop[1].incoming.method
        /\ hop[1].forwarded.path = hop[1].incoming.path
        /\ hop[1].forwarded.query = hop[1].incoming.query
        /\ hop[1].forwarded.headers = hop[1].incoming.headers
        /\ hop[1].forwarded.body = hop[1].incoming.body
        /\ hop[1].outcome = "answered" => hop[1].returned = hop[1].answer
        /\ hop[1].outcome = "unreachable" => hop[1].returned.status = 503

\* ------------------------------------------------------ claims on host metrics
\* C26: getCPUMetrics reports usage = (total - idle) / total * 100, total
\* being the sum of the seven counters of the aggregate line, and for every
\* line of non-negative counters, the one of zeros included, the usage is a
\* number between 0 and 100.
C26_UsageIsAPercentage ==
    stat.metrics.error = "nil" =>
        LET c == [i \in 1..Len(Counters) |-> stat.fields[i + 1]]
            total == c[1] + c[2] + c[3] + c[4] + c[5] + c[6] + c[7]
            usage == stat.metrics.usage
        IN  /\ usage.class = "finite"
            /\ usage.num * total = (total - c[4]) * 100 * usage.den
            /\ 0 <= usage.num /\ usage.num <= 100 * usage.den

\* ----------------------------------------------------------- claims on the log
\* C24: after n LogEntry calls logs.json holds exactly the min(n, 1000) most
\* recent entries in call order: never more than 1000, and an entry is gone
\* only when 1000 later ones pushed it out.
C24_LogHoldsTheLatestEntries ==
    LET n == logs.calls
        kept == IF n < LogCap THEN n ELSE LogCap
    IN  /\ Len(logs.file) = kept
        /\ \A i \in 1..Len(logs.file) : logs.file[i].call = n - kept + i

\* C30: the entries of logs.json carry IDs that increase strictly in append
\* order (each ID is greater than the one before it), hence pairwise
\* distinct IDs, after any number of LogEntry calls, more than 1000 included.
C30_LogIdsIncrease ==
    \A i \in 1..(Len(logs.file) - 1) : logs.file[i].id < logs.file[i + 1].id

\* ------------------------------------------------- claims on forwarded identity
\* the route the gateway matched for the request is one whose middleware
\* validates a token
OnProtectedRoute ==
    LET rt == FindRoute(RoutesGateway, req)
    IN  /\ rt # NoRoute /\ rt.wrapped
        /\ AuthMiddlewareGateway(req, envSecret, now).checked

\* C25: whenever the gateway forwards a request on a protected route, the
\* X-User and X-Role headers the service behind receives are the username
\* and role claims of the token the gateway validated for the request,
\* whatever X-User and X-Role the client sent.
C25_ForwardedIdentityIsTheTokens ==
    \A i \in 1..Len(hop) :
        OnProtectedRoute =>
            /\ ValidateToken(req.token, GetJWTSecret(envSecret), now)
            /\ hop[i].forwarded.headers.xuser = req.token.username
            /\ hop[i].forwarded.headers.xrole = req.token.role

\* a request with bob's token and the headers of an admin was forwarded
C25_Witness ==
    /\ hop # NoHop /\ OnProtectedRoute
    /\ hop[1].incoming.headers.xuser = "admin" /\ hop[1].incoming.headers.xrole = "admin"
    /\ req.token.username = "bob" /\ hop[1].forwarded.headers.xrole = "user"

\* ------------------------------------------------ claims on failed changes
\* C27: in the docker-service a changePassword that answers with an error
\* (a failed database update included) leaves the credentials authenticate
\* accepts as they were, and after every completed request the in-memory
\* map and the database hold the same password hash for each user.
C27_FailedChangeChangesNothing ==
    [][ (deploy = "mono" /\ resp = NoResp /\ resp' # NoResp) =>
            /\ (resp'.handler = "changePasswordHandler" /\ resp'.status >= 400) =>
                  \A u \in Usernames, pw \in Passwords :
                      AuthenticateUserMem(memUsers', u, pw) = AuthenticateUserMem(memUsers, u, pw)
            /\ \A u \in DOMAIN memUsers' :
                  /\ u \in DOMAIN dbUsers'
                  /\ memUsers'[u].passwordHash = dbUsers'[u].passwordHash ]_vars

\* ------------------------------------------------ claims on concurrent requests
\* the password changes acknowledged with 200 for user u
Acknowledged(u) ==
    {t \in Threads : thr[t].op = "changePassword" /\ thr[t].username = u /\ thr[t].status = 200}

\* the hash the store holds for u, "differ" when map and database disagree
StoredHash(u) ==
    IF deploy = "split" THEN GetUser(fileUsers, u).passwordHash
    ELSE IF memUsers[u].passwordHash = dbUsers[u].passwordHash THEN memUsers[u].passwordHash
    ELSE [of |-> "differ", salt |-> 0]

\* C21: under every interleaving of concurrent changePassword requests the
\* store ends as some serial execution of them leaves it: once all requests
\* are answered, a user with acknowledged changes holds the hash of one of
\* them (the last of the serial order), so no acknowledged change is lost
\* to a stale read-modify-write.
C21_NoAcknowledgedChangeIsLost ==
    (\A t \in Threads : thr[t].pc = "done") =>
        \A u \in Usernames :
            Acknowledged(u) # {} => StoredHash(u) \in {thr[t].hash : t \in Acknowledged(u)}

\* the usernames with a record in the store
Recorded ==
    IF deploy = "split" THEN {fileUsers[i].username : i \in 1..Len(fileUsers)}
    ELSE DOMAIN memUsers \cap DOMAIN dbUsers

\* C23: the write of a successful changePassword for user u changes u's
\* passwordHash and updatedAt and nothing else: u's username, role and
\* createdAt and every other user's record stay as they were, and no step of
\* the service removes a credential record.
C23_ChangeTouchesOneRecordOnly ==
    [][ /\ \A t \in Threads :
              (thr[t].pc = "writing" /\ thr'[t].pc = "done" /\ thr'[t].status = 200) =>
                  /\ Len(fileUsers') = Len(fileUsers)
                  /\ \A i \in 1..Len(fileUsers) :
                        IF fileUsers[i].username = thr[t].username
                        THEN fileUsers'[i] = [fileUsers[i] EXCEPT
                                                 !.passwordHash = fileUsers'[i].passwordHash,
                                                 !.updatedAt = fileUsers'[i].updatedAt]
                        ELSE fileUsers'[i] = fileUsers[i]
        /\ \A t \in Threads :
              (deploy = "mono" /\ thr[t].pc \in {"verified", "stored"} /\ thr'[t].pc # thr[t].pc) =>
                  /\ \A u \in DOMAIN memUsers \ {thr[t].username} : memUsers'[u] = memUsers[u]
                  /\ \A u \in DOMAIN dbUsers \ {thr[t].username} : dbUsers'[u] = dbUsers[u]
                  /\ \A u \in DOMAIN memUsers :
                        memUsers'[u] = [memUsers[u] EXCEPT !.passwordHash = memUsers'[u].passwordHash]
        /\ Recorded \subseteq Recorded' ]_vars

\* C28: a login with valid credentials for an existing user, whose password
\* no concurrent request changes, is answered 200 under every interleaving
\* with the writes of other requests: the reader never finds users.json
\* missing, empty or half written.
C28_ValidLoginSucceeds ==
    \A t \in Threads :
        ( /\ thr[t].op = "login" /\ thr[t].pc = "done"
          /\ AuthenticateUser(deploy, thr[t].username, thr[t].password) = "nil"
          /\ \A o \in Threads \ {t} : thr[o].username # thr[t].username )
            => thr[t].status = 200

\* C29: a non-forced volume deletion that runs beside a container creation
\* mounting the same volume never issues `docker volume rm` for a volume a
\* container references at the moment the command is issued: the in-use
\* check and the removal behave as one atomic step.
C29_RemovalNeverIssuedForVolumeInUse ==
    \A t \in Threads :
        (thr[t].op = "deleteVolume" /\ thr[t].pc = "issued") => ~thr[t].inUse

\* -------------------------------------------------- claims on stored records
\* C22: in every state of the credential store there is at most one record
\* per username, and a CreateUser for a username that is already recorded
\* (as the bootstrap of a startup may issue it) fails and leaves the
\* existing record as it is.
C22_OneRecordPerUsername ==
    [][ /\ \A i, j \in 1..Len(fileUsers') :
              fileUsers'[i].username = fileUsers'[j].username => i = j
        /\ restarts' # restarts =>
              /\ \A i \in 1..Len(fileUsers) : fileUsers'[i] = fileUsers[i]
              /\ \A u \in DOMAIN dbUsers : dbUsers'[u] = dbUsers[u] ]_vars

====
